---- MODULE Spec2Model ----
(***************************************************************************)
(* SmartBagan backend: the multi-bagan optimizer (optimizerService), the   *)
(* optimization routes (POST /analyze, POST /quick-check, PUT /config),    *)
(* zoneService (zone score, fetchers, fetchWithRetry, moon phase) and the  *)
(* trips routes.                                                           *)
(*                                                                         *)
(* Numbers.  The code computes in IEEE doubles; the model computes in      *)
(* exact fixed point:                                                      *)
(*   - a position is a point of one meridian, given by its offset `lat`    *)
(*     along the meridian in distance units, DistPerKm units to the km.    *)
(*     On a meridian the Haversine distance of calculateDistance is the    *)
(*     length R * |dLat| of the arc, i.e. the difference of the offsets;   *)
(*   - money is counted in units of 1/MoneyScale Rp, so that an unrounded  *)
(*     amount and its Math.round differ;                                   *)
(*   - Math.round(x) is floor(x + 0.5);                                    *)
(*   - an unrounded time is [travel, minutes]: the distance travelled at   *)
(*     tow speed, in distance units, and a whole number of minutes on top  *)
(*     of it.                                                              *)
(***************************************************************************)
EXTENDS Integers, Sequences, FiniteSets, TLC

VARIABLES CONFIG, out, calls, responses, zoneIn, zoneOut, fetch, scan,
          trips, tripIdCounter, issued

vars == <<CONFIG, out, calls, responses, zoneIn, zoneOut, fetch, scan,
         trips, tripIdCounter, issued>>

\* Distance units per km: one unit is 6.25 mm.
DistPerKm == 160000

\* Money units per Rp: one unit is a quarter rupiah.
MoneyScale == 4

\* Math.round of the fraction n / s (s > 0): floor(n/s + 1/2).
Round(n, s) == (2 * n + s) \div (2 * s)

Abs(n) == IF n < 0 THEN -n ELSE n

(***************************************************************************)
(* CONFIG, optimizerService lines 10-34.  maxTowDistance is in km,         *)
(* towSpeedKnots in tenths of a knot.                                      *)
(***************************************************************************)
DefaultConfig ==
  [ fuelPricePerLiter  |-> 10000,
    fuelConsumptionTow |-> 4,
    catchPricePerKg    |-> 35000,
    minProfitThreshold |-> 50000,
    towSpeedKnots      |-> 25,
    setupTimeMinutes   |-> 20,
    maxTowDistance     |-> 5,
    safeZone           |-> [center |-> [lat |-> 0], radiusKm |-> 10],
    islands            |-> <<"Pulau Badul", "Pulau Tinjil", "Karang Bokor">> ]

\* calculateDistance, restricted to points of one meridian.
calculateDistance(lat1, lat2) == Abs(lat2 - lat1)

\* calculateFuelCost: liters = distanceKm * fuelConsumptionTow, times the price;
\* in money units.  The configurations of the model keep
\* fuelConsumptionTow * fuelPricePerLiter a multiple of DistPerKm / MoneyScale,
\* so the division is exact.
calculateFuelCost(distance, cfg) ==
  distance * ((cfg.fuelConsumptionTow * cfg.fuelPricePerLiter * MoneyScale) \div DistPerKm)

\* calculateTowTime: distanceKm * 0.539957 nautical miles at towSpeedKnots.
calculateTowTime(distance) == [travel |-> distance, minutes |-> 0]

\* An assignment in place of the addition: the time of the last step alone.
LastTime(t, u) == u

\* The sum of two times, and of a time and a number of minutes.
AddTime(t, u) == [travel |-> t.travel + u.travel, minutes |-> t.minutes + u.minutes]

AddMinutes(t, m) == [travel |-> t.travel, minutes |-> t.minutes + m]

\* floor(distance * a / DistPerKm), computed on the kilometres, the 400ths
\* of a km and the units of the distance (DistPerKm = 400 * 400) so as to
\* stay within 32 bits.
ScaleFloor(distance, a) ==
  (distance \div DistPerKm) * a
  + ((((distance % DistPerKm) \div 400) * a + (((distance % DistPerKm) % 400) * a) \div 400)
     \div 400)

\* Math.round of a time, in minutes.  The travel takes
\* km * 0.539957 / towSpeedKnots * 60 minutes, i.e. km * 3239742 over
\* 10000 * towSpeedKnots (in tenths of a knot); the fraction that ScaleFloor
\* drops is below one unit of that quotient and cannot reach the half.
RoundTime(t, cfg) ==
  t.minutes + Round(ScaleFloor(t.travel, 3239742), 10000 * cfg.towSpeedKnots)

\* estimateCatch: baseMin = score * 0.6, baseMax = score * 0.9, and avg is the
\* rounding of the mean of the unrounded baseMin and baseMax, score * 0.75.
estimateCatch(score) ==
  [ min |-> Round(score * 6, 10),
    max |-> Round(score * 9, 10),
    avg |-> Round(score * 6 + score * 9, 20) ]

\* The result of shouldMoveBagan when it returns without an analysis.
NoAnalysis == [none |-> TRUE]

\* A constraint check that takes maxTowDistance for a thousand times as far.
TooFarUnits(distance, cfg) == distance > cfg.maxTowDistance * DistPerKm * 1000

\* line 106: the constraint check of shouldMoveBagan.
TooFar(distance, cfg) == distance > cfg.maxTowDistance * DistPerKm

\* A decision that leaves the fuel cost out.
DecideOnRevenue(netProfit, extraRevenue, cfg) ==
  extraRevenue >= cfg.minProfitThreshold * MoneyScale

\* line 130: the decision of shouldMoveBagan, on the unrounded net profit.
Decide(netProfit, extraRevenue, cfg) ==
  netProfit >= cfg.minProfitThreshold * MoneyScale

\* shouldMoveBagan.  raw holds the unrounded locals of the function (money
\* units), analysis the record it returns (rounded for presentation).
shouldMoveBagan(currentBagan, targetSpot, cfg) ==
  LET distance == calculateDistance(currentBagan.lat, targetSpot.lat)
  IN IF TooFar(distance, cfg)
     THEN [ shouldMove |-> FALSE, reason |-> "Too far",
            analysis |-> NoAnalysis, raw |-> NoAnalysis ]
     ELSE
       LET towTime       == calculateTowTime(distance)
           fuelCost      == calculateFuelCost(distance, cfg)
           currentCatch  == estimateCatch(currentBagan.score)
           targetCatch   == estimateCatch(targetSpot.score)
           extraCatchAvg == targetCatch.avg - currentCatch.avg
           extraRevenue  == extraCatchAvg * cfg.catchPricePerKg * MoneyScale
           netProfit     == extraRevenue - fuelCost
           roi100        == IF fuelCost > 0 THEN Round(netProfit * 100, fuelCost) ELSE 0
           shouldMove    == Decide(netProfit, extraRevenue, cfg)
       IN [ shouldMove |-> shouldMove, reason |-> "",
            analysis |->
              [ currentScore |-> currentBagan.score,
                targetScore  |-> targetSpot.score,
                scoreDelta   |-> targetSpot.score - currentBagan.score,
                distance     |-> Round(distance * 100, DistPerKm),
                towTime      |-> RoundTime(towTime, cfg),
                setupTime    |-> cfg.setupTimeMinutes,
                totalTime    |-> RoundTime(AddMinutes(towTime, cfg.setupTimeMinutes), cfg),
                fuelCost     |-> Round(fuelCost, MoneyScale),
                currentExpectedCatch |-> currentCatch,
                targetExpectedCatch  |-> targetCatch,
                extraCatch   |-> extraCatchAvg,
                extraRevenue |-> Round(extraRevenue, MoneyScale),
                netProfit    |-> Round(netProfit, MoneyScale),
                roi          |-> roi100,
                worthIt      |-> shouldMove ],
            raw |-> [ distance |-> distance, fuelCost |-> fuelCost,
                      netProfit |-> netProfit ] ]

\* The target of a recommendation to stay.
NoSpot == [none |-> TRUE]

\* A test that lets a spot of equal profit replace the best one so far.
IsBetterOrEqual(decision, maxProfit) ==
  decision.shouldMove /\ decision.analysis.netProfit >= maxProfit

\* line 170: whether a spot replaces the best one found so far.  The profit
\* compared is decision.analysis.netProfit, the rounded one.
IsBetter(decision, maxProfit) ==
  decision.shouldMove /\ decision.analysis.netProfit > maxProfit

\* The same loop with the profit test forgotten: the nearest spot in reach.
RECURSIVE NearestSpotLoop(_, _, _, _, _)
NearestSpotLoop(bagan, availableSpots, i, st, cfg) ==
  IF i > Len(availableSpots) THEN st
  ELSE LET decision == shouldMoveBagan(bagan, availableSpots[i], cfg)
       IN IF decision.analysis # NoAnalysis
             /\ (st.bestSpot = NoSpot \/ decision.analysis.distance < st.bestAnalysis.distance)
          THEN NearestSpotLoop(bagan, availableSpots, i + 1,
                 [ bestSpot |-> availableSpots[i],
                   bestAnalysis |-> decision.analysis,
                   maxProfit |-> decision.analysis.netProfit ], cfg)
          ELSE NearestSpotLoop(bagan, availableSpots, i + 1, st, cfg)

\* lines 167-175: the loop over the available spots, from spot i on, with
\* st = [bestSpot, bestAnalysis, maxProfit].
RECURSIVE BestSpotLoop(_, _, _, _, _)
BestSpotLoop(bagan, availableSpots, i, st, cfg) ==
  IF i > Len(availableSpots) THEN st
  ELSE LET decision == shouldMoveBagan(bagan, availableSpots[i], cfg)
       IN IF IsBetter(decision, st.maxProfit)
          THEN BestSpotLoop(bagan, availableSpots, i + 1,
                 [ bestSpot |-> availableSpots[i],
                   bestAnalysis |-> decision.analysis,
                   maxProfit |-> decision.analysis.netProfit ], cfg)
          ELSE BestSpotLoop(bagan, availableSpots, i + 1, st, cfg)

\* lines 162-164 and 177-191: the recommendation pushed for one bagan.
Recommend(bagan, availableSpots, cfg) ==
  LET st == BestSpotLoop(bagan, availableSpots, 1,
              [ bestSpot |-> NoSpot, bestAnalysis |-> NoAnalysis,
                maxProfit |-> cfg.minProfitThreshold ], cfg)
  IN [ bagan |-> bagan,
       recommendation |->
         IF st.bestSpot # NoSpot
         THEN [ action |-> "move", targetSpot |-> st.bestSpot,
                analysis |-> st.bestAnalysis, reason |-> "" ]
         ELSE [ action |-> "stay", targetSpot |-> NoSpot, analysis |-> NoAnalysis,
                reason |-> IF st.bestAnalysis # NoAnalysis
                           THEN "Not profitable enough" ELSE "No better spot found" ] ]

\* The spots not yet taken by the recommendations made so far.
FreeSpots(availableSpots, recommendations) ==
  SelectSeq(availableSpots,
    LAMBDA s : \A k \in 1..Len(recommendations) :
                 recommendations[k].recommendation.targetSpot # s)

\* The same loop handing each bagan only the spots no earlier bagan took.
RECURSIVE FindBestSpotsLoopDedup(_, _, _, _, _)
FindBestSpotsLoopDedup(currentBagans, availableSpots, i, recommendations, cfg) ==
  IF i > Len(currentBagans) THEN recommendations
  ELSE FindBestSpotsLoopDedup(currentBagans, availableSpots, i + 1,
         Append(recommendations,
                Recommend(currentBagans[i],
                          FreeSpots(availableSpots, recommendations), cfg)), cfg)

\* lines 161-192: the loop over the bagans, from bagan i on.
RECURSIVE FindBestSpotsLoop(_, _, _, _, _)
FindBestSpotsLoop(currentBagans, availableSpots, i, recommendations, cfg) ==
  IF i > Len(currentBagans) THEN recommendations
  ELSE FindBestSpotsLoop(currentBagans, availableSpots, i + 1,
         Append(recommendations, Recommend(currentBagans[i], availableSpots, cfg)), cfg)

\* findBestSpots.
findBestSpots(currentBagans, availableSpots, cfg) ==
  FindBestSpotsLoop(currentBagans, availableSpots, 1, <<>>, cfg)

(***************************************************************************)
(* Route optimization, optimizerService lines 201-330.                     *)
(***************************************************************************)

\* arr without its i-th element: arr.slice(0, i).concat(arr.slice(i + 1)).
Remaining(arr, i) == SubSeq(arr, 1, i - 1) \o SubSeq(arr, i + 1, Len(arr))

\* [current, ...perm] for every perm of perms, in order.
Prefixed(current, perms) == [k \in 1..Len(perms) |-> <<current>> \o perms[k]]

\* generatePermutations: the permutations of arr, in the order the code
\* pushes them.
RECURSIVE generatePermutations(_), PermsFrom(_, _)
generatePermutations(arr) ==
  IF Len(arr) <= 1 THEN <<arr>> ELSE PermsFrom(arr, 1)

\* lines 320-328: the loop of generatePermutations, from index i on.
PermsFrom(arr, i) ==
  IF i > Len(arr) THEN <<>>
  ELSE Prefixed(arr[i], generatePermutations(Remaining(arr, i))) \o PermsFrom(arr, i + 1)

\* lines 220-240: the distance of one order, from item i on.
RECURSIVE PermDistance(_, _, _, _)
PermDistance(perm, i, currentPos, distance) ==
  IF i > Len(perm) THEN distance
  ELSE PermDistance(perm, i + 1, perm[i].recommendation.targetSpot.lat,
         distance
         + calculateDistance(currentPos, perm[i].bagan.lat)
         + calculateDistance(perm[i].bagan.lat, perm[i].recommendation.targetSpot.lat))

\* A test that lets an order of equal distance replace the best one so far.
IsShorterOrEqual(distance, best) == best.infinite \/ distance <= best.minDistance

\* line 242: whether an order replaces the best one so far; minDistance
\* starts at Infinity.
IsShorter(distance, best) == best.infinite \/ distance < best.minDistance

\* lines 219-246: the search, from permutation i on.
RECURSIVE BestRouteLoop(_, _, _, _)
BestRouteLoop(permutations, i, kapalPosition, best) ==
  IF i > Len(permutations) THEN best
  ELSE LET distance == PermDistance(permutations[i], 1, kapalPosition.lat, 0)
       IN BestRouteLoop(permutations, i + 1, kapalPosition,
            IF IsShorter(distance, best)
            THEN [bestRoute |-> permutations[i], minDistance |-> distance,
                  infinite |-> FALSE]
            ELSE best)

\* lines 254-299: the detailed steps of the best route, from item i on.
\* Distances are in distance units; the fields shown are the toFixed(2)
\* values, in hundredths of a km, and the Math.round values, in minutes.
\* distToTow is analysis.distance, which is already rounded to hundredths
\* of a km, and timeToTow is analysis.towTime, already rounded to minutes.
\* cumulativeRaw and cumulativeTimeRaw keep the unrounded locals.
RECURSIVE RouteDetails(_, _, _, _, _, _, _)
RouteDetails(bestRoute, i, currentPos, cumulativeDistance, cumulativeTime, routeDetails, cfg) ==
  IF i > Len(bestRoute) THEN routeDetails
  ELSE
    LET item         == bestRoute[i]
        distToPickup == calculateDistance(currentPos, item.bagan.lat)
        distToTow    == item.recommendation.analysis.distance * (DistPerKm \div 100)
        timeToPickup == calculateTowTime(distToPickup)
        timeToTow    == item.recommendation.analysis.towTime
        setupTime    == cfg.setupTimeMinutes
        stepDistance == distToPickup + distToTow
        stepTime     == AddMinutes(timeToPickup, timeToTow + setupTime)
    IN RouteDetails(bestRoute, i + 1, item.recommendation.targetSpot.lat,
         cumulativeDistance + stepDistance, AddTime(cumulativeTime, stepTime),
         Append(routeDetails,
           [ step |-> i,
             baganId |-> item.bagan.id,
             from |-> currentPos,
             pickupLocation |-> item.bagan.lat,
             targetLocation |-> item.recommendation.targetSpot.lat,
             distanceToPickup |-> Round(distToPickup * 100, DistPerKm),
             distanceToTow |-> Round(distToTow * 100, DistPerKm),
             totalStepDistance |-> Round(stepDistance * 100, DistPerKm),
             timeToPickup |-> RoundTime(timeToPickup, cfg),
             timeToTow |-> timeToTow,
             setupTime |-> setupTime,
             totalStepTime |-> RoundTime(stepTime, cfg),
             cumulativeRaw |-> cumulativeDistance + stepDistance,
             cumulativeDistance |-> Round((cumulativeDistance + stepDistance) * 100, DistPerKm),
             cumulativeTimeRaw |-> AddTime(cumulativeTime, stepTime),
             cumulativeTime |-> RoundTime(AddTime(cumulativeTime, stepTime), cfg),
             targetScore |-> item.recommendation.targetSpot.score,
             expectedProfit |-> item.recommendation.analysis.netProfit ]),
         cfg)

\* bestRoute.reduce((sum, item) => sum + item.recommendation.analysis.netProfit, 0)
RECURSIVE SumProfit(_, _)
SumProfit(bestRoute, i) ==
  IF i > Len(bestRoute) THEN 0
  ELSE bestRoute[i].recommendation.analysis.netProfit + SumProfit(bestRoute, i + 1)

\* A test that sends a single item to the search like any longer move-set.
NeverSingle(bagansToMove) == FALSE

\* line 203: bagansToMove.length === 1
IsSingle(bagansToMove) == Len(bagansToMove) = 1

\* lines 301-312: the object returned for two items or more.
FullRoute(bestRoute, permutations, routeDetails, cumulativeDistance, cumulativeTime, cfg) ==
  [ kind |-> "full",
    permutations |-> permutations,
    route |-> routeDetails,
    summary |->
      [ totalBagans |-> Len(bestRoute),
        totalDistance |-> Round(cumulativeDistance * 100, DistPerKm),
        totalTime |-> RoundTime(cumulativeTime, cfg),
        totalFuelCost |-> Round(calculateFuelCost(cumulativeDistance, cfg), MoneyScale),
        totalExpectedProfit |-> SumProfit(bestRoute, 1) ] ]

\* lines 248-312: the details of the best route and the object returned.
DetailedRoute(bestRoute, permutations, routeDetails, cfg) ==
  FullRoute(bestRoute, permutations, routeDetails,
            IF routeDetails = <<>> THEN 0 ELSE routeDetails[Len(routeDetails)].cumulativeRaw,
            IF routeDetails = <<>> THEN calculateTowTime(0)
            ELSE routeDetails[Len(routeDetails)].cumulativeTimeRaw,
            cfg)

\* lines 214-246: the search among the permutations generated.
SearchedRoute(kapalPosition, permutations, cfg) ==
  LET best == BestRouteLoop(permutations, 1, kapalPosition,
                [bestRoute |-> <<>>, minDistance |-> 0, infinite |-> TRUE])
  IN DetailedRoute(best.bestRoute, Len(permutations),
       RouteDetails(best.bestRoute, 1, kapalPosition.lat, 0, calculateTowTime(0), <<>>, cfg),
       cfg)

\* optimizeRoute.  kind tells the three shapes the function returns: null, the
\* one-item object {route, totalDistance, totalTime} (which has no summary),
\* and {route, summary}; permutations counts the orders that
\* generatePermutations returned to it, 0 when it was not called.
optimizeRoute(kapalPosition, bagansToMove, cfg) ==
  IF Len(bagansToMove) = 0 THEN [kind |-> "null", permutations |-> 0]
  ELSE IF IsSingle(bagansToMove)
  THEN [ kind |-> "single",
         permutations |-> 0,
         route |-> <<bagansToMove[1]>>,
         totalDistance |-> calculateDistance(kapalPosition.lat, bagansToMove[1].bagan.lat),
         totalTime |-> 0 ]
  ELSE SearchedRoute(kapalPosition, generatePermutations(bagansToMove), cfg)

(***************************************************************************)
(* optimizeBaganOperations, optimizerService lines 336-384.                *)
(***************************************************************************)

\* ((totalExpectedProfit - totalFuelCost) / totalFuelCost * 100).toFixed(1):
\* the percentage in tenths, rounded half away from zero; a division by zero
\* gives Infinity, -Infinity or NaN, which toFixed prints as such.
RoiFixed(totalExpectedProfit, totalFuelCost) ==
  LET net == totalExpectedProfit - totalFuelCost
      a   == Abs(net) * 100
  IN IF totalFuelCost = 0
     THEN [ finite |-> FALSE, tenths |-> 0,
            text |-> IF net > 0 THEN "Infinity"
                     ELSE IF net < 0 THEN "-Infinity" ELSE "NaN" ]
     ELSE LET mag == 10 * (a \div totalFuelCost)
                     + Round(10 * (a % totalFuelCost), totalFuelCost)
          IN [ finite |-> TRUE, tenths |-> IF net < 0 THEN -mag ELSE mag,
               text |-> "" ]

\* What the function does with a route object that has no summary: reading
\* optimizedRoute.summary.totalDistance of it throws a TypeError.
Threw(error) == [status |-> "threw", error |-> error]

\* lines 370-378 for a route that is not null.
EstimatedTotals(optimizedRoute) ==
  [ totalDistance |-> optimizedRoute.summary.totalDistance,
    totalFuelCost |-> optimizedRoute.summary.totalFuelCost,
    totalExpectedProfit |-> optimizedRoute.summary.totalExpectedProfit,
    netProfit |-> optimizedRoute.summary.totalExpectedProfit
                  - optimizedRoute.summary.totalFuelCost,
    roi |-> RoiFixed(optimizedRoute.summary.totalExpectedProfit,
                     optimizedRoute.summary.totalFuelCost) ]

NoTotals == [none |-> TRUE]

IsMove(r) == r.recommendation.action = "move"

\* A result that lists the recommendations to move only.
OperationsResultOfMovers(input, recommendations, bagansToMove, optimizedRoute) ==
  IF optimizedRoute.kind # "null" /\ "summary" \notin DOMAIN optimizedRoute
  THEN Threw("TypeError")
  ELSE [ status |-> "ok",
         summary |->
           [ totalBagans  |-> Len(input.currentBagans),
             bagansToMove |-> Len(bagansToMove),
             bagansToStay |-> Len(input.currentBagans) - Len(bagansToMove),
             worthMoving  |-> Len(bagansToMove) > 0 ],
         recommendations |-> bagansToMove,
         optimizedRoute  |-> optimizedRoute,
         estimatedTotals |-> IF optimizedRoute.kind # "null"
                             THEN EstimatedTotals(optimizedRoute) ELSE NoTotals ]

\* A function that raises an error when no platform is to move.
OperationsResultStrict(input, recommendations, bagansToMove, optimizedRoute) ==
  IF optimizedRoute.kind = "null" \/ "summary" \notin DOMAIN optimizedRoute
  THEN Threw("Error")
  ELSE [ status |-> "ok",
         summary |->
           [ totalBagans  |-> Len(input.currentBagans),
             bagansToMove |-> Len(bagansToMove),
             bagansToStay |-> Len(input.currentBagans) - Len(bagansToMove),
             worthMoving  |-> Len(bagansToMove) > 0 ],
         recommendations |-> recommendations,
         optimizedRoute  |-> optimizedRoute,
         estimatedTotals |-> EstimatedTotals(optimizedRoute) ]

\* lines 360-379: the result assembled from the recommendations, the platforms
\* to move and their route.  optimizedRoute.summary.totalDistance of a route
\* that has no summary (line 371) throws a TypeError, which nothing in the
\* function catches.
OperationsResult(input, recommendations, bagansToMove, optimizedRoute) ==
  IF optimizedRoute.kind # "null" /\ "summary" \notin DOMAIN optimizedRoute
  THEN Threw("TypeError")
  ELSE [ status |-> "ok",
         summary |->
           [ totalBagans  |-> Len(input.currentBagans),
             bagansToMove |-> Len(bagansToMove),
             bagansToStay |-> Len(input.currentBagans) - Len(bagansToMove),
             worthMoving  |-> Len(bagansToMove) > 0 ],
         recommendations |-> recommendations,
         optimizedRoute  |-> optimizedRoute,
         estimatedTotals |-> IF optimizedRoute.kind # "null"
                             THEN EstimatedTotals(optimizedRoute) ELSE NoTotals ]

\* lines 351-357: the route of the platforms recommended to move.
RouteOfMoves(input, recommendations, bagansToMove, cfg) ==
  OperationsResult(input, recommendations, bagansToMove,
                   IF Len(bagansToMove) > 0
                   THEN optimizeRoute(input.kapalPosition, bagansToMove, cfg)
                   ELSE [kind |-> "null"])

\* lines 343-349: the platforms whose recommendation is to move.
MovesOf(input, recommendations, cfg) ==
  RouteOfMoves(input, recommendations, SelectSeq(recommendations, IsMove), cfg)

optimizeBaganOperations(input, cfg) ==
  MovesOf(input, findBestSpots(input.currentBagans, input.candidateSpots, cfg), cfg)

(***************************************************************************)
(* calculateZoneScore, zoneService lines 295-399.  A reading is            *)
(* [present, nan, value, source]: present tells whether the bundle holds   *)
(* the factor, nan whether its value is NaN (every comparison with NaN is  *)
(* false).  Values are integers: chlorophyll in 0.01 mg/m3, temperature in *)
(* 0.1 degrees C, illumination in %, wave height in cm, wind speed in      *)
(* 0.1 m/s.                                                                *)
(***************************************************************************)

Absent == [present |-> FALSE, nan |-> FALSE, value |-> 0, source |-> ""]

Reading(value, source) ==
  [present |-> TRUE, nan |-> FALSE, value |-> value, source |-> source]

NaNReading(source) == [present |-> TRUE, nan |-> TRUE, value |-> 0, source |-> source]

Entry(score, max, rating) == [score |-> score, max |-> max, rating |-> rating]

\* The chlorophyll bands with 'Excellent' worth more than the factor's 30 points.
ChlorophyllEntryTypo(r) ==
  IF ~r.nan /\ r.value > 50 THEN Entry(35, 30, "Excellent")
  ELSE IF ~r.nan /\ r.value > 30 THEN Entry(20, 30, "Good")
  ELSE IF ~r.nan /\ r.value > 10 THEN Entry(10, 30, "Fair")
  ELSE Entry(0, 30, "Poor")

\* lines 303-315
ChlorophyllEntry(r) ==
  IF ~r.nan /\ r.value > 50 THEN Entry(30, 30, "Excellent")
  ELSE IF ~r.nan /\ r.value > 30 THEN Entry(20, 30, "Good")
  ELSE IF ~r.nan /\ r.value > 10 THEN Entry(10, 30, "Fair")
  ELSE Entry(0, 30, "Poor")

\* lines 321-333
SstEntry(r) ==
  IF ~r.nan /\ r.value >= 270 /\ r.value <= 300 THEN Entry(25, 25, "Optimal")
  ELSE IF ~r.nan /\ r.value >= 250 /\ r.value <= 320 THEN Entry(15, 25, "Good")
  ELSE IF ~r.nan /\ r.value >= 230 /\ r.value <= 340 THEN Entry(5, 25, "Fair")
  ELSE Entry(0, 25, "Poor")

\* lines 339-352
MoonEntry(r) ==
  IF ~r.nan /\ r.value < 30 THEN Entry(20, 20, "Excellent")
  ELSE IF ~r.nan /\ r.value < 50 THEN Entry(15, 20, "Good")
  ELSE IF ~r.nan /\ r.value < 70 THEN Entry(10, 20, "Fair")
  ELSE Entry(5, 20, "Poor")

\* lines 358-370
WaveEntry(r) ==
  IF ~r.nan /\ r.value < 100 THEN Entry(15, 15, "Calm")
  ELSE IF ~r.nan /\ r.value < 150 THEN Entry(10, 15, "Moderate")
  ELSE IF ~r.nan /\ r.value < 200 THEN Entry(5, 15, "Choppy")
  ELSE Entry(0, 15, "Rough")

\* lines 376-388
WindEntry(r) ==
  IF ~r.nan /\ r.value < 50 THEN Entry(10, 10, "Calm")
  ELSE IF ~r.nan /\ r.value < 70 THEN Entry(7, 10, "Light")
  ELSE IF ~r.nan /\ r.value < 100 THEN Entry(4, 10, "Moderate")
  ELSE Entry(0, 10, "Strong")

\* The keys of data and of breakdown, in the order the function scores them.
Factors == <<"chlorophyll", "sst", "moon", "waveHeight", "wind">>

BreakdownKey(factor) == IF factor = "waveHeight" THEN "wave" ELSE factor

FactorEntry(factor, r) ==
  CASE factor = "chlorophyll" -> ChlorophyllEntry(r)
    [] factor = "sst"         -> SstEntry(r)
    [] factor = "moon"        -> MoonEntry(r)
    [] factor = "waveHeight"  -> WaveEntry(r)
    [] factor = "wind"        -> WindEntry(r)

\* The points of a factor that maxScore counts: every `maxScore += n` stands
\* before the test of the factor's presence.
FactorMax(factor) == FactorEntry(factor, Absent).max

calculateZoneScore(data) ==
  LET present   == { k \in 1..Len(Factors) : data[Factors[k]].present }
      breakdown == [ key \in { BreakdownKey(Factors[k]) : k \in present } |->
                       LET k == CHOOSE k \in present : BreakdownKey(Factors[k]) = key
                       IN FactorEntry(Factors[k], data[Factors[k]]) ]
      Points(factor) == IF data[factor].present
                        THEN FactorEntry(factor, data[factor]).score ELSE 0
      score     == Points("chlorophyll") + Points("sst") + Points("moon")
                   + Points("waveHeight") + Points("wind")
      maxScore  == FactorMax("chlorophyll") + FactorMax("sst") + FactorMax("moon")
                   + FactorMax("waveHeight") + FactorMax("wind")
  IN [ score |-> Round(score * 100, maxScore),
       breakdown |-> breakdown,
       maxScore |-> maxScore,
       actualScore |-> score ]

(***************************************************************************)
(* getMoonPhase, zoneService lines 247-289.  A date is the calendar date   *)
(* [year, month, day] that getFullYear, getMonth() + 1 and getDate read.   *)
(* The Julian Day of line 255 ends in .5, so it is counted in half-days;   *)
(* 29.53 is 2953 / 100, so the fractional part of line 261 is a number of  *)
(* 2953ths.                                                                *)
(***************************************************************************)

\* lines 255-256: twice the Julian Day; 3442027 is 2 * 1721013.5.
JulianHalfDays(year, month, day) ==
  2 * (367 * year - ((7 * (year + ((month + 9) \div 12))) \div 4)
       + ((275 * month) \div 9) + day) + 3442027

\* lines 259-261: the fractional part of daysSinceNew / 29.53, in 2953ths;
\* 4903099 is 2 * 2451549.5, and a number h of half-days is h * 50 / 2953
\* synodic months.
PhaseOf(jd) == ((jd - 4903099) * 50) % 2953

\* lines 264-272
PhaseName(illumination) ==
  IF      100 * illumination < 625  THEN "New Moon"
  ELSE IF 100 * illumination < 1875 THEN "Waxing Crescent"
  ELSE IF 100 * illumination < 3125 THEN "First Quarter"
  ELSE IF 100 * illumination < 4375 THEN "Waxing Gibbous"
  ELSE IF 100 * illumination < 5625 THEN "Full Moon"
  ELSE IF 100 * illumination < 6875 THEN "Waning Gibbous"
  ELSE IF 100 * illumination < 8125 THEN "Last Quarter"
  ELSE "Waning Crescent"

\* lines 274-279 (without the timestamp)
MoonOf(illumination) ==
  [ illumination |-> illumination,
    phase |-> PhaseName(illumination),
    quality |-> IF illumination < 30 THEN "excellent"
                ELSE IF illumination < 60 THEN "good" ELSE "poor" ]

\* line 262: illumination = Math.round(phase * 100)
getMoonPhase(date) ==
  MoonOf(Round(100 * PhaseOf(JulianHalfDays(date.year, date.month, date.day)), 2953))

(***************************************************************************)
(* The fetchers of zoneService, lines 53-241, and estimateScoreForLocation *)
(* of the optimization routes, lines 234-270.  A fetcher is modelled on    *)
(* the outcome o of its fetchWithRetry: [kind |-> "error", message] when   *)
(* fetchWithRetry threw, [kind |-> "data", shape, nan, value] when it      *)
(* returned response.data, of shape "ok" (the field the fetcher looks for  *)
(* is there), "empty" (it is not) or "malformed" (reading it throws a      *)
(* TypeError); nan tells that parseFloat of the value gives NaN.           *)
(***************************************************************************)

\* fetchWithRetry(url, retries = 2, ...), line 53.
Retries == 2

\* The score of the catch of estimateScoreForLocation, line 268.
NeutralScore == 75

Resolved(reading) == [status |-> "resolved", reading |-> reading]

\* A catch that hands the error on to the caller.
FallbackRethrow(value, message) == [status |-> "rejected", error |-> message]

\* The catch of a fetcher: the estimated reading, with the error's message.
Fallback(value, message) ==
  Resolved([ present |-> TRUE, nan |-> FALSE, value |-> value,
             source |-> "Estimated", error |-> message ])

\* What the try block of a fetcher throws on the outcome o, "" if nothing.
Thrown(o, noData) ==
  IF o.kind = "error" THEN o.message
  ELSE IF o.shape = "malformed" THEN "TypeError"
  ELSE IF o.shape = "empty" THEN noData
  ELSE ""

\* getChlorophyllData, lines 70-104; value in 0.01 mg/m3.
getChlorophyllData(o) ==
  IF Thrown(o, "No chlorophyll data available") # ""
  THEN Fallback(35, Thrown(o, "No chlorophyll data available"))
  ELSE Resolved(IF o.nan THEN NaNReading("NASA VIIRS") ELSE Reading(o.value, "NASA VIIRS"))

\* getSST, lines 110-144.  The payload is in 0.01 K; sstKelvin - 273.15 to
\* two decimals is exact in 0.01 degrees, and the reading keeps 0.1 degrees
\* (the payloads of the model are whole tenths of a degree C).
getSST(o) ==
  IF Thrown(o, "No SST data available") # ""
  THEN Fallback(285, Thrown(o, "No SST data available"))
  ELSE Resolved(IF o.nan THEN NaNReading("NOAA MUR SST")
                ELSE Reading((o.value - 27315) \div 10, "NOAA MUR SST"))

\* getMarineWeather, lines 150-191: the source is a field of the marine
\* object, not of its waveHeight; parseFloat(...) || 0 makes NaN 0.
getMarineWeather(o) ==
  IF Thrown(o, "No marine weather data available") # ""
  THEN [ status |-> "resolved",
         reading |-> [ waveHeight |-> Reading(80, ""), source |-> "Estimated",
                       error |-> Thrown(o, "No marine weather data available") ] ]
  ELSE Resolved([ waveHeight |-> Reading(IF o.nan THEN 0 ELSE o.value, ""),
                  source |-> "Open-Meteo Marine" ])

\* getWindData, lines 197-241: without an API key nothing is fetched.
getWindData(o, hasKey) ==
  IF ~hasKey THEN Fallback(45, "OpenWeather API key not configured")
  ELSE IF Thrown(o, "No wind data available") # ""
  THEN Fallback(45, Thrown(o, "No wind data available"))
  ELSE Resolved(Reading(IF o.nan THEN 0 ELSE o.value, "OpenWeather"))

\* The fetchers of the fan-out of estimateScoreForLocation, lines 245-251.
Fetchers == {"chlorophyll", "sst", "marine", "wind"}

\* The fetcher f on the outcome o of its fetchWithRetry.
FetcherResult(f, o, hasKey) ==
  CASE f = "chlorophyll" -> getChlorophyllData(o)
    [] f = "sst"         -> getSST(o)
    [] f = "marine"      -> getMarineWeather(o)
    [] f = "wind"        -> getWindData(o, hasKey)

\* lines 254-262: the score of the five readings.
ScoreOfReadings(results, moon) ==
  calculateZoneScore(
    [ chlorophyll |-> results["chlorophyll"].reading,
      sst         |-> results["sst"].reading,
      waveHeight  |-> results["marine"].reading.waveHeight,
      wind        |-> results["wind"].reading,
      moon        |-> moon ]).score

\* estimateScoreForLocation, from the settled promises of the four fetchers
\* and the moon phase: Promise.all rejects when one of them rejected, and the
\* catch of line 264 returns the neutral score.
estimateScoreForLocation(results, moon) ==
  IF \E f \in Fetchers : results[f].status = "rejected"
  THEN [caught |-> TRUE, score |-> NeutralScore]
  ELSE [caught |-> FALSE, score |-> ScoreOfReadings(results, moon)]

(***************************************************************************)
(* The inputs of the model.                                                *)
(***************************************************************************)

\* The longest fleet and the longest candidate list of a call.
MaxBagans == 3
MaxSpots == 3

B1 == [id |-> 1, lat |-> 0, score |-> 72]
B2 == [id |-> 2, lat |-> DistPerKm, score |-> 72]
B3 == [id |-> 3, lat |-> -DistPerKm, score |-> 80]
Bagans == {B1, B2, B3}

\* S1 and S2 lie half a km either side of B1, S2 one distance unit farther;
\* S3 is worth exactly the default threshold to B1; S4 is 6 km from B1, 5 km
\* from B2.
S1 == [id |-> 1, lat |-> DistPerKm \div 2, score |-> 90]
S2 == [id |-> 2, lat |-> -(DistPerKm \div 2) - 1, score |-> 90]
S3 == [id |-> 3, lat |-> -(DistPerKm \div 2), score |-> 75]
S4 == [id |-> 4, lat |-> 6 * DistPerKm, score |-> 100]
Spots == {S1, S2, S3, S4}

\* S5 lies where B1 lies: a move of length zero.
S5 == [id |-> 5, lat |-> 0, score |-> 90]

\* B4 lies where B1 lies, with a lower score.
B4 == [id |-> 4, lat |-> 0, score |-> 60]

\* The inputs in which the vessel, the platforms and the candidate spot are
\* all at one place: every leg of the route has length 0.
ColocatedInputs ==
  { [kapalPosition |-> [lat |-> 0], currentBagans |-> f, candidateSpots |-> <<S5>>]
    : f \in {<<B1, B4>>, <<B4, B1>>} }

KapalPositions == {[lat |-> 0], [lat |-> DistPerKm]}

\* The scores calculateZoneScore can give.
Scores == 0..100

\* The sequences of distinct elements of S of the lengths lo..hi.
DistinctSeqs(S, lo, hi) ==
  UNION { { q \in [1..n -> S] : \A i, j \in 1..n : i # j => q[i] # q[j] } : n \in lo..hi }

Fleets == DistinctSeqs(Bagans, 1, MaxBagans)
SpotLists == DistinctSeqs(Spots, 0, MaxSpots)

\* The move-sets handed to optimizeRoute: the recommendations to move that
\* findBestSpots makes of a fleet and a candidate list.
MoveSets ==
  { SelectSeq(findBestSpots(f, s, DefaultConfig), IsMove) : f \in Fleets, s \in SpotLists }

\* The bodies of PUT /config.
ConfigUpdates ==
  { [minProfitThreshold |-> 470000],
    [maxTowDistance |-> 10],
    [fuelPricePerLiter |-> 20000] }

\* Object.assign(target, updates): every own key of updates is set on target.
ObjectAssign(target, updates) ==
  [k \in DOMAIN target \cup DOMAIN updates |->
     IF k \in DOMAIN updates THEN updates[k] ELSE target[k]]

\* The trip storage of the trips routes when the module is loaded, part_000
\* lines 5-6; issued lists the ids that POST /api/trips has handed out.
NoTrips == trips = <<>> /\ tripIdCounter = 1 /\ issued = <<>>

(***************************************************************************)
(* Spec: one call of an exported function of the optimizer, which reads    *)
(* the CONFIG in force when it runs, and PUT /config requests before and   *)
(* after it.                                                               *)
(***************************************************************************)

Init ==
  /\ CONFIG = DefaultConfig
  /\ NoTrips
  /\ out \in
       { [op |-> "optimizeBaganOperations", pc |-> "pending",
          input |-> [kapalPosition |-> k, currentBagans |-> f, candidateSpots |-> s]]
         : k \in KapalPositions, f \in Fleets, s \in SpotLists }
       \cup
       { [op |-> "optimizeBaganOperations", pc |-> "pending", input |-> i]
         : i \in ColocatedInputs }
       \cup
       { [op |-> "findBestSpots", pc |-> "pending",
          input |-> [currentBagans |-> f, availableSpots |-> s]]
         : f \in Fleets, s \in SpotLists }
       \cup
       { [op |-> "optimizeRoute", pc |-> "pending",
          input |-> [kapalPosition |-> k, bagansToMove |-> m]]
         : k \in KapalPositions, m \in MoveSets }
       \cup
       { [op |-> "shouldMoveBagan", pc |-> "pending",
          input |-> [bagan |-> b, targetSpot |-> s]]
         : b \in Bagans, s \in Spots \cup {S5} }
       \cup
       { [op |-> "estimateCatch", pc |-> "pending", input |-> [score |-> n]]
         : n \in Scores }
  /\ calls = <<>>
  /\ responses = <<>>
  /\ zoneIn = <<>>
  /\ zoneOut = <<>>
  /\ fetch = <<>>
  /\ scan = <<>>

\* The call returns: out keeps its input, the CONFIG it ran under and its result.
Return(result) ==
  out' = [ op |-> out.op, pc |-> "done", input |-> out.input, cfg |-> CONFIG,
           result |-> result ]

\* optimizer.optimizeBaganOperations(input)
CallOptimize ==
  /\ out.op = "optimizeBaganOperations" /\ out.pc = "pending"
  /\ Return(optimizeBaganOperations(out.input, CONFIG))
  /\ UNCHANGED <<CONFIG, calls, responses, zoneIn, zoneOut, fetch, scan>>
  /\ UNCHANGED <<trips, tripIdCounter, issued>>

\* optimizer.findBestSpots(currentBagans, availableSpots)
CallFindBestSpots ==
  /\ out.op = "findBestSpots" /\ out.pc = "pending"
  /\ Return(findBestSpots(out.input.currentBagans, out.input.availableSpots, CONFIG))
  /\ UNCHANGED <<CONFIG, calls, responses, zoneIn, zoneOut, fetch, scan>>
  /\ UNCHANGED <<trips, tripIdCounter, issued>>

\* optimizer.optimizeRoute(kapalPosition, bagansToMove)
CallOptimizeRoute ==
  /\ out.op = "optimizeRoute" /\ out.pc = "pending"
  /\ Return(optimizeRoute(out.input.kapalPosition, out.input.bagansToMove, CONFIG))
  /\ UNCHANGED <<CONFIG, calls, responses, zoneIn, zoneOut, fetch, scan>>
  /\ UNCHANGED <<trips, tripIdCounter, issued>>

\* POST /quick-check: optimizer.shouldMoveBagan(bagan, targetSpot)
QuickCheck ==
  /\ out.op = "shouldMoveBagan" /\ out.pc = "pending"
  /\ Return(shouldMoveBagan(out.input.bagan, out.input.targetSpot, CONFIG))
  /\ UNCHANGED <<CONFIG, calls, responses, zoneIn, zoneOut, fetch, scan>>
  /\ UNCHANGED <<trips, tripIdCounter, issued>>

\* optimizer.estimateCatch(score)
CallEstimateCatch ==
  /\ out.op = "estimateCatch" /\ out.pc = "pending"
  /\ Return(estimateCatch(out.input.score))
  /\ UNCHANGED <<CONFIG, calls, responses, zoneIn, zoneOut, fetch, scan>>
  /\ UNCHANGED <<trips, tripIdCounter, issued>>

\* PUT /config with one of the bodies given: line 322.
PutConfigOf(bodies) ==
  /\ \E updates \in bodies : CONFIG' = ObjectAssign(CONFIG, updates)
  /\ UNCHANGED <<out, calls, responses, zoneIn, zoneOut, fetch, scan>>
  /\ UNCHANGED <<trips, tripIdCounter, issued>>

\* PUT /config
PutConfig == PutConfigOf(ConfigUpdates)

Next ==
  \/ CallOptimize
  \/ CallFindBestSpots
  \/ CallOptimizeRoute
  \/ QuickCheck
  \/ CallEstimateCatch
  \/ PutConfig

Spec == Init /\ [][Next]_vars

Returned(op) == out.op = op /\ out.pc = "done"

Range(f) == { f[x] : x \in DOMAIN f }

(***************************************************************************)
(* Route selection.                                                        *)
(***************************************************************************)

\* The orders of n items: the bijections of 1..n.
Orders(n) == { p \in [1..n -> 1..n] : \A i, j \in 1..n : i # j => p[i] # p[j] }

\* The length of visiting the items of moves in the order p from kapal: for
\* each step the leg to the platform and the leg from it to its target spot.
OrderCost(kapal, moves, p) ==
  LET item(k) == moves[p[k]]
      start(k) == IF k = 1 THEN kapal.lat ELSE item(k - 1).recommendation.targetSpot.lat
      leg[k \in 0..Len(moves)] ==
        IF k = 0 THEN 0
        ELSE leg[k - 1]
             + Abs(item(k).bagan.lat - start(k))
             + Abs(item(k).recommendation.targetSpot.lat - item(k).bagan.lat)
  IN leg[Len(moves)]

\* p is generated before q: generatePermutations takes the first item in
\* index order, then permutes the rest, kept in order.
GeneratedBefore(p, q) ==
  \E k \in DOMAIN p : p[k] < q[k] /\ \A j \in 1..(k - 1) : p[j] = q[j]

\* The order of a returned route, as indices into the move-set.
ChosenOrder(route, moves) ==
  [k \in 1..Len(route) |->
     CHOOSE i \in 1..Len(moves) : moves[i].bagan.id = route[k].baganId]

\* C1: for a move-set of N >= 2 items optimizeRoute's order is no longer than
\* any other permutation of the move-set, and of the permutations of that
\* minimal length it is the first one generated.
C1_MinimalFirstRoute ==
  (Returned("optimizeRoute") /\ Len(out.input.bagansToMove) >= 2) =>
    LET moves == out.input.bagansToMove
        kapal == out.input.kapalPosition
        c     == ChosenOrder(out.result.route, moves)
    IN /\ out.result.kind = "full"
       /\ Len(out.result.route) = Len(moves)
       /\ c \in Orders(Len(moves))
       /\ \A p \in Orders(Len(moves)) :
            /\ OrderCost(kapal, moves, c) <= OrderCost(kapal, moves, p)
            /\ OrderCost(kapal, moves, p) = OrderCost(kapal, moves, c)
                 => (p = c \/ GeneratedBefore(c, p))

\* A route of three items in which another order ties with the chosen one and
\* a third order is longer.
C1_Witness ==
  /\ Returned("optimizeRoute") /\ Len(out.input.bagansToMove) = 3
  /\ LET moves == out.input.bagansToMove
         kapal == out.input.kapalPosition
         c     == ChosenOrder(out.result.route, moves)
     IN /\ \E p \in Orders(3) :
             p # c /\ OrderCost(kapal, moves, p) = OrderCost(kapal, moves, c)
        /\ \E p \in Orders(3) : OrderCost(kapal, moves, p) > OrderCost(kapal, moves, c)

(***************************************************************************)
(* The orchestrator.                                                       *)
(***************************************************************************)

\* C2: whenever at least one platform is recommended to move, exactly one
\* included, optimizeBaganOperations returns without raising an error, with a
\* route that is not null and with estimatedTotals taken from the route's
\* summary.
C2_MoveGivesRouteAndTotals ==
  ( /\ Returned("optimizeBaganOperations")
    /\ \E r \in Range(findBestSpots(out.input.currentBagans,
                                    out.input.candidateSpots, out.cfg)) : IsMove(r) )
  => /\ out.result.status = "ok"
     /\ out.result.optimizedRoute.kind # "null"
     /\ out.result.estimatedTotals # NoTotals
     /\ out.result.estimatedTotals.totalDistance
          = out.result.optimizedRoute.summary.totalDistance
     /\ out.result.estimatedTotals.totalFuelCost
          = out.result.optimizedRoute.summary.totalFuelCost
     /\ out.result.estimatedTotals.totalExpectedProfit
          = out.result.optimizedRoute.summary.totalExpectedProfit

(***************************************************************************)
(* The assignment of spots, findBestSpots.                                 *)
(***************************************************************************)

\* The decisions of shouldMoveBagan for one bagan over the list of spots.
Decisions(bagan, spots, cfg) ==
  [j \in 1..Len(spots) |-> shouldMoveBagan(bagan, spots[j], cfg)]

\* C3: a recommendation to move never names a site whose analysis.netProfit
\* is below CONFIG.minProfitThreshold.
C3_NoMoveBelowThreshold ==
  Returned("findBestSpots") =>
    \A i \in 1..Len(out.result) :
      IsMove(out.result[i]) =>
        out.result[i].recommendation.analysis.netProfit >= out.cfg.minProfitThreshold

\* One platform is told to move, and a platform is told to stay although a
\* spot in reach was evaluated for it, with a profit below the threshold.
C3_Witness ==
  /\ Returned("findBestSpots")
  /\ \E i \in 1..Len(out.result) : IsMove(out.result[i])
  /\ \E i \in 1..Len(out.result) :
       /\ ~IsMove(out.result[i])
       /\ \E d \in Range(Decisions(out.input.currentBagans[i],
                                   out.input.availableSpots, out.cfg)) :
            d.analysis # NoAnalysis /\ d.analysis.netProfit < out.cfg.minProfitThreshold

\* The spots of the list that qualify for a bagan: worthIt and an
\* analysis.netProfit strictly above the threshold.
Qualifying(ds, cfg) ==
  { j \in DOMAIN ds : /\ ds[j].analysis # NoAnalysis
                      /\ ds[j].analysis.worthIt
                      /\ ds[j].analysis.netProfit > cfg.minProfitThreshold }

\* C4: each platform gets the qualifying site of maximal analysis.netProfit,
\* the first such site of the candidate list when several are maximal, and
\* 'stay' when no site qualifies (a site whose netProfit equals the threshold
\* does not qualify).
C4_BestQualifyingSpotFirst ==
  Returned("findBestSpots") =>
    /\ Len(out.result) = Len(out.input.currentBagans)
    /\ \A i \in 1..Len(out.result) :
         LET spots == out.input.availableSpots
             ds    == Decisions(out.input.currentBagans[i], spots, out.cfg)
             q     == Qualifying(ds, out.cfg)
             rec   == out.result[i].recommendation
         IN /\ out.result[i].bagan = out.input.currentBagans[i]
            /\ (q = {}) => rec.action = "stay"
            /\ (q # {}) =>
                 /\ rec.action = "move"
                 /\ \E j \in q :
                      /\ rec.targetSpot = spots[j]
                      /\ rec.analysis = ds[j].analysis
                      /\ \A k \in q : ds[k].analysis.netProfit <= ds[j].analysis.netProfit
                      /\ \A k \in q : ds[k].analysis.netProfit = ds[j].analysis.netProfit
                                       => j <= k

\* A platform with two qualifying sites of the same maximal netProfit, and a
\* site whose netProfit is the threshold exactly.
C4_Witness ==
  /\ Returned("findBestSpots")
  /\ \E i \in 1..Len(out.result) :
       LET ds == Decisions(out.input.currentBagans[i], out.input.availableSpots, out.cfg)
           q  == Qualifying(ds, out.cfg)
       IN /\ \E j, k \in q :
               /\ j < k
               /\ ds[j].analysis.netProfit = ds[k].analysis.netProfit
               /\ \A m \in q : ds[m].analysis.netProfit <= ds[j].analysis.netProfit
          /\ \E j \in DOMAIN ds :
               /\ ds[j].analysis # NoAnalysis
               /\ ds[j].analysis.netProfit = out.cfg.minProfitThreshold

\* C7: comparisons are made on unrounded values: the site selected for a
\* platform has an unrounded netProfit at least that of every site that
\* qualifies on unrounded values (worth it, and above the threshold), and
\* some site is selected whenever one so qualifies.
C7_ComparesUnrounded ==
  Returned("findBestSpots") =>
    \A i \in 1..Len(out.result) :
      LET spots == out.input.availableSpots
          ds    == Decisions(out.input.currentBagans[i], spots, out.cfg)
          q     == { j \in DOMAIN ds :
                       /\ ds[j].shouldMove
                       /\ ds[j].raw.netProfit > out.cfg.minProfitThreshold * MoneyScale }
          rec   == out.result[i].recommendation
      IN (q # {}) =>
           /\ rec.action = "move"
           /\ \E j \in q :
                /\ rec.targetSpot = spots[j]
                /\ \A k \in q : ds[k].raw.netProfit <= ds[j].raw.netProfit

\* C8: sites are assigned per platform, without deduplication: a platform's
\* recommendation is the one it gets as the only platform of the fleet, and
\* platforms whose best qualifying site is the same site are all told to
\* move to it.
C8_IndependentAssignment ==
  Returned("findBestSpots") =>
    LET alone(i) == findBestSpots(<<out.input.currentBagans[i]>>,
                                  out.input.availableSpots, out.cfg)[1]
    IN /\ \A i \in 1..Len(out.result) : out.result[i] = alone(i)
       /\ \A i, j \in 1..Len(out.result) :
            ( /\ IsMove(alone(i)) /\ IsMove(alone(j))
              /\ alone(i).recommendation.targetSpot = alone(j).recommendation.targetSpot )
            => /\ IsMove(out.result[i]) /\ IsMove(out.result[j])
               /\ out.result[i].recommendation.targetSpot
                    = alone(i).recommendation.targetSpot
               /\ out.result[j].recommendation.targetSpot
                    = alone(i).recommendation.targetSpot

\* Two platforms of one fleet are told to move to the same site.
C8_Witness ==
  /\ Returned("findBestSpots")
  /\ \E i, j \in 1..Len(out.result) :
       /\ i < j
       /\ IsMove(out.result[i]) /\ IsMove(out.result[j])
       /\ out.result[i].recommendation.targetSpot = out.result[j].recommendation.targetSpot

(***************************************************************************)
(* The decision to move, shouldMoveBagan.                                  *)
(***************************************************************************)

\* The distance of the pair a returned shouldMoveBagan was called with.
PairDistance == Abs(out.input.targetSpot.lat - out.input.bagan.lat)

\* The extra revenue of the pair, in money units.
PairRevenue ==
  (estimateCatch(out.input.targetSpot.score).avg - estimateCatch(out.input.bagan.score).avg)
  * out.cfg.catchPricePerKg * MoneyScale

\* C5: beyond the maximum tow distance shouldMoveBagan returns shouldMove
\* false with the 'too far' reason and no analysis, whatever the profit.
C5_TooFarShortCircuits ==
  ( /\ Returned("shouldMoveBagan")
    /\ PairDistance > out.cfg.maxTowDistance * DistPerKm )
  => /\ out.result.shouldMove = FALSE
     /\ out.result.reason = "Too far"
     /\ out.result.analysis = NoAnalysis

\* A pair too far apart whose net profit would have reached the threshold.
C5_Witness ==
  /\ Returned("shouldMoveBagan")
  /\ PairDistance > out.cfg.maxTowDistance * DistPerKm
  /\ PairRevenue - calculateFuelCost(PairDistance, out.cfg)
       >= out.cfg.minProfitThreshold * MoneyScale

\* C6: within the maximum tow distance worthIt is netProfit >= the threshold,
\* for netProfit = extra average catch * catchPricePerKg - distance *
\* fuelConsumptionTow * fuelPricePerLiter, and roi is netProfit / fuelCost *
\* 100 when fuelCost > 0 and 0 otherwise (both reported rounded).
C6_WorthItIffNetProfitReachesThreshold ==
  ( /\ Returned("shouldMoveBagan")
    /\ PairDistance <= out.cfg.maxTowDistance * DistPerKm )
  => LET fuelCost  == calculateFuelCost(PairDistance, out.cfg)
         netProfit == PairRevenue - fuelCost
     IN /\ out.result.analysis # NoAnalysis
        /\ out.result.analysis.worthIt
             = (netProfit >= out.cfg.minProfitThreshold * MoneyScale)
        /\ out.result.shouldMove = out.result.analysis.worthIt
        /\ out.result.analysis.netProfit = Round(netProfit, MoneyScale)
        /\ out.result.analysis.roi
             = IF fuelCost > 0 THEN Round(netProfit * 100, fuelCost) ELSE 0

\* A pair in reach whose net profit is below the threshold while its extra
\* revenue is not.
C6_Witness ==
  /\ Returned("shouldMoveBagan")
  /\ PairDistance <= out.cfg.maxTowDistance * DistPerKm
  /\ PairRevenue >= out.cfg.minProfitThreshold * MoneyScale
  /\ out.result.analysis.worthIt = FALSE
  /\ out.result.analysis.fuelCost > 0

(***************************************************************************)
(* SpecScore: calculateZoneScore on a reading bundle.                      *)
(***************************************************************************)

\* The readings of each factor: absent, NaN, the fetcher's fallback reading
\* (source 'Estimated') and live values on both sides of the band limits.
ChlorophyllReadings ==
  {Absent, NaNReading("NASA VIIRS"), Reading(35, "Estimated")}
  \cup { Reading(v, "NASA VIIRS") : v \in {10, 11, 30, 50, 51} }

SstReadings ==
  {Absent, NaNReading("NOAA MUR SST"), Reading(285, "Estimated")}
  \cup { Reading(v, "NOAA MUR SST") : v \in {229, 230, 250, 300, 301, 341} }

MoonReadings ==
  {Absent, NaNReading("")} \cup { Reading(v, "") : v \in {0, 29, 30, 50, 70, 100} }

WaveReadings ==
  {Absent, NaNReading("Open-Meteo Marine"), Reading(80, "Estimated")}
  \cup { Reading(v, "Open-Meteo Marine") : v \in {0, 100, 150, 200} }

WindReadings ==
  {Absent, NaNReading("OpenWeather"), Reading(45, "Estimated")}
  \cup { Reading(v, "OpenWeather") : v \in {0, 50, 70, 100} }

Bundles ==
  [ chlorophyll : ChlorophyllReadings, sst : SstReadings, moon : MoonReadings,
    waveHeight : WaveReadings, wind : WindReadings ]

InitScore ==
  /\ CONFIG = DefaultConfig
  /\ NoTrips
  /\ out = [op |-> "none", pc |-> "idle"]
  /\ calls = <<>>
  /\ responses = <<>>
  /\ zoneIn \in Bundles
  /\ zoneOut = [pc |-> "pending"]
  /\ fetch = <<>>
  /\ scan = <<>>

\* zoneService.calculateZoneScore(data)
CallCalculateZoneScore ==
  /\ zoneOut.pc = "pending"
  /\ zoneOut' = [pc |-> "done", result |-> calculateZoneScore(zoneIn)]
  /\ UNCHANGED <<CONFIG, out, calls, responses, zoneIn, fetch, scan>>
  /\ UNCHANGED <<trips, tripIdCounter, issued>>

NextScore == CallCalculateZoneScore

SpecScore == InitScore /\ [][NextScore]_vars

\* C10: for every reading bundle calculateZoneScore returns an integer score
\* between 0 and 100.
C10_ScoreInRange ==
  zoneOut.pc = "done" => zoneOut.result.score \in 0..100

\* A partial bundle has been scored, with some factor present earning points.
C10_Witness ==
  /\ zoneOut.pc = "done"
  /\ \E f \in Range(Factors) : ~zoneIn[f].present
  /\ \E f \in Range(Factors) : zoneIn[f].present
  /\ zoneOut.result.score > 0

\* The points a factor may earn when the bundle holds it, 0 when it does not.
PresentMax(factor) == IF zoneIn[factor].present THEN FactorMax(factor) ELSE 0

\* The sum of the max points of the factors the bundle holds.
PresentMaxScore ==
  PresentMax("chlorophyll") + PresentMax("sst") + PresentMax("moon")
  + PresentMax("waveHeight") + PresentMax("wind")

\* C11: a factor missing from the bundle is left out of maxScore as it is left
\* out of the score: maxScore is the sum of the max points of the factors
\* present, and the total is round(100 * earned / maxScore), so that a partial
\* bundle whose factors all earn their full points scores 100.
C11_MaxScoreOfPresentFactors ==
  (zoneOut.pc = "done" /\ PresentMaxScore > 0) =>
    /\ zoneOut.result.maxScore = PresentMaxScore
    /\ zoneOut.result.score = Round(zoneOut.result.actualScore * 100, PresentMaxScore)

\* The provider a live reading of a factor is tagged with.
LiveSource(factor) ==
  CASE factor = "chlorophyll" -> "NASA VIIRS"
    [] factor = "sst"         -> "NOAA MUR SST"
    [] factor = "waveHeight"  -> "Open-Meteo Marine"
    [] factor = "wind"        -> "OpenWeather"
    [] OTHER                  -> ""

\* C12: the breakdown tells a factor scored from a fallback reading from the
\* same factor scored from a live reading: the entry of a factor whose
\* reading is tagged 'Estimated' differs from the entry the same value gets
\* when a live provider reported it.
C12_BreakdownTellsSource ==
  zoneOut.pc = "done" =>
    \A f \in Range(Factors) :
      (zoneIn[f].present /\ zoneIn[f].source = "Estimated") =>
        zoneOut.result.breakdown[BreakdownKey(f)]
          # calculateZoneScore(
              [zoneIn EXCEPT ![f].source = LiveSource(f)]).breakdown[BreakdownKey(f)]

(***************************************************************************)
(* The optimization routes (router.post, router.put): POST /analyze with   *)
(* its scan of the area, and PUT /config.                                  *)
(***************************************************************************)

\* One step of the scan's lattice along the meridian: gridSize / 111 degrees
\* of latitude, which calculateDistance measures as 0.500876 km.
GridStep == 80140

\* lat.toFixed(4): a ten-thousandth of a degree of latitude, in distance units.
LatQuantum == 1779

\* 0.3 km, the least distance of a scanned point from a bagan.
MinSeparation == 48000

\* The least score of a candidate spot, and the most spots the scan returns.
MinSpotScore == 70
TopSpots == 20

\* Math.ceil(radiusKm / gridSize) for gridSize = 0.5 and a whole radiusKm.
StepsPerSide(radiusKm) == 2 * radiusKm

\* lines 189-192: the lattice points of the scan on the meridian of the
\* center (the column lngStep = 0), in the order of the loop.
GridPoints(center, radiusKm) ==
  [k \in 1..(2 * StepsPerSide(radiusKm) + 1) |->
     center.lat + (k - StepsPerSide(radiusKm) - 1) * GridStep]

\* lines 195-203: the points the loop does not skip.
Surviving(center, currentBagans, radiusKm) ==
  SelectSeq(GridPoints(center, radiusKm),
    LAMBDA lat :
      /\ ~(calculateDistance(center.lat, lat) > radiusKm * DistPerKm)
      /\ ~\E k \in 1..Len(currentBagans) :
            calculateDistance(currentBagans[k].lat, lat) < MinSeparation)

\* lines 210-219: the spots after the point lat has got its score.
PushSpot(spots, spotId, lat, score) ==
  IF score >= MinSpotScore
  THEN Append(spots, [ id |-> spotId,
                       lat |-> Round(lat, LatQuantum) * LatQuantum,
                       score |-> score,
                       estimatedCatch |-> estimateCatch(score) ])
  ELSE spots

\* spots.sort((a, b) => b.score - a.score): a stable sort, by insertion.
RECURSIVE InsertByScore(_, _)
InsertByScore(sorted, spot) ==
  IF sorted = <<>> THEN <<spot>>
  ELSE IF sorted[Len(sorted)].score >= spot.score THEN Append(sorted, spot)
  ELSE Append(InsertByScore(SubSeq(sorted, 1, Len(sorted) - 1), spot), sorted[Len(sorted)])

RECURSIVE SortByScore(_, _, _)
SortByScore(spots, i, sorted) ==
  IF i > Len(spots) THEN sorted
  ELSE SortByScore(spots, i + 1, InsertByScore(sorted, spots[i]))

\* The first spots pushed, with the sort left out.
FirstCandidates(spots) ==
  SubSeq(spots, 1, IF Len(spots) < TopSpots THEN Len(spots) ELSE TopSpots)

\* lines 223-227: what scanAreaForSpots returns of the spots it pushed.
TopCandidates(spots) ==
  LET sorted == SortByScore(spots, 1, <<>>)
  IN SubSeq(sorted, 1, IF Len(sorted) < TopSpots THEN Len(sorted) ELSE TopSpots)

\* lines 151-168: the optimization and the response of POST /analyze.
ResponseOf(result) ==
  IF result.status = "threw"
  THEN [status |-> 500, success |-> FALSE, error |-> result.error]
  ELSE [status |-> 200, success |-> TRUE, data |-> result]

AnalyzeResponse(body, candidateSpots, cfg) ==
  ResponseOf(optimizeBaganOperations(
               [ kapalPosition |-> body.kapalPosition,
                 currentBagans |-> body.currentBagans,
                 candidateSpots |-> candidateSpots ], cfg))

\* The bundles of readings estimateScoreForLocation may get for a point: all
\* factors at their best, all fetchers fallen back, all factors poor.
ScanBundles ==
  { [ chlorophyll |-> Reading(51, "NASA VIIRS"), sst |-> Reading(285, "NOAA MUR SST"),
      moon |-> Reading(20, ""), waveHeight |-> Reading(50, "Open-Meteo Marine"),
      wind |-> Reading(30, "OpenWeather") ],
    [ chlorophyll |-> Reading(35, "Estimated"), sst |-> Reading(285, "Estimated"),
      moon |-> Reading(20, ""), waveHeight |-> Reading(80, "Estimated"),
      wind |-> Reading(45, "Estimated") ],
    [ chlorophyll |-> Reading(10, "NASA VIIRS"), sst |-> Reading(229, "NOAA MUR SST"),
      moon |-> Reading(20, ""), waveHeight |-> Reading(200, "Open-Meteo Marine"),
      wind |-> Reading(100, "OpenWeather") ] }

\* The requests in flight.
CallIds == {1, 2}

\* The bodies of POST /analyze.
AnalyzeBodies ==
  { [kapalPosition |-> [lat |-> 0], currentBagans |-> f, scanRadius |-> 1]
    : f \in {<<>>, <<B1>>, <<B1, B2>>} }

Idle == [pc |-> "idle"]

NoResponse == [status |-> 0]

InitServer ==
  /\ CONFIG = DefaultConfig
  /\ NoTrips
  /\ out = [op |-> "none", pc |-> "idle"]
  /\ calls = [c \in CallIds |-> Idle]
  /\ responses = [c \in CallIds |-> NoResponse]
  /\ zoneIn = <<>>
  /\ zoneOut = <<>>
  /\ fetch = <<>>
  /\ scan = <<>>

\* The call after scanAreaForSpots has returned.  cfg0 keeps the CONFIG of
\* the call's start.
Scanned(body, cfg0, spots) ==
  [pc |-> "done", body |-> body, cfg0 |-> cfg0, candidateSpots |-> TopCandidates(spots)]

\* The response of the call c once its handler has come to its end.  From
\* the return of scanAreaForSpots to the response the handler runs without a
\* suspension that another request could be served in, and it reads the
\* CONFIG of that moment.
Respond(c) ==
  responses' = [responses EXCEPT ![c] =
    IF calls'[c].pc = "rejected" THEN [status |-> 400, success |-> FALSE]
    ELSE IF calls'[c].pc = "done"
    THEN AnalyzeResponse(calls'[c].body, calls'[c].candidateSpots, CONFIG)
    ELSE NoResponse]

\* POST /analyze arrives: the validation (lines 129-134), and the scan up to
\* its first await of a point's score.
PostAnalyze(c) ==
  /\ calls[c].pc = "idle"
  /\ \E body \in AnalyzeBodies :
       LET todo == Surviving(body.kapalPosition, body.currentBagans, body.scanRadius)
       IN calls' = [calls EXCEPT ![c] =
            IF Len(body.currentBagans) = 0 THEN [pc |-> "rejected", body |-> body]
            ELSE IF todo = <<>> THEN Scanned(body, CONFIG, <<>>)
            ELSE [ pc |-> "scan", body |-> body, cfg0 |-> CONFIG,
                   todo |-> todo, spots |-> <<>>, spotId |-> 1 ]]
  /\ Respond(c)
  /\ UNCHANGED <<CONFIG, out, zoneIn, zoneOut, fetch, scan>>
  /\ UNCHANGED <<trips, tripIdCounter, issued>>

\* The awaited estimateScoreForLocation of the next point resolves, and the
\* scan runs on to its next await, or to the end of the handler.
ScanPoint(c) ==
  /\ calls[c].pc = "scan"
  /\ \E data \in ScanBundles :
       LET call   == calls[c]
           score  == calculateZoneScore(data).score
           spots  == PushSpot(call.spots, call.spotId, Head(call.todo), score)
           spotId == IF score >= MinSpotScore THEN call.spotId + 1 ELSE call.spotId
       IN calls' = [calls EXCEPT ![c] =
            IF Tail(call.todo) = <<>>
            THEN Scanned(call.body, call.cfg0, spots)
            ELSE [call EXCEPT !.todo = Tail(call.todo), !.spots = spots,
                              !.spotId = spotId]]
  /\ Respond(c)
  /\ UNCHANGED <<CONFIG, out, zoneIn, zoneOut, fetch, scan>>
  /\ UNCHANGED <<trips, tripIdCounter, issued>>

NextServer ==
  \/ \E c \in CallIds : PostAnalyze(c)
  \/ \E c \in CallIds : ScanPoint(c)
  \/ PutConfig

SpecServer == InitServer /\ [][NextServer]_vars

\* C9: no state is shared between calls: the response of an analyze call is
\* the one its body and the readings of its scan give under the
\* configuration in force when the call started, whatever requests were
\* served between its start and its completion.
C9_ResponseIndependentOfOtherRequests ==
  \A c \in CallIds :
    calls[c].pc = "done" =>
      responses[c] = AnalyzeResponse(calls[c].body, calls[c].candidateSpots, calls[c].cfg0)

(***************************************************************************)
(* SpecFetch: one call of estimateScoreForLocation.  Its four fetchers run *)
(* at once, each in its fetchWithRetry: a request in flight (pc "get",     *)
(* attempt i), the second before the next attempt (pc "wait"), or settled  *)
(* (pc "done").                                                            *)
(***************************************************************************)

Data(shape, nan, value) ==
  [kind |-> "data", shape |-> shape, nan |-> nan, value |-> value, message |-> ""]

\* fetchWithRetry threw the error of its last attempt.
Failure(message) ==
  [kind |-> "error", shape |-> "", nan |-> FALSE, value |-> 0, message |-> message]

\* What the provider of a fetcher may answer.
Payloads(f) ==
  CASE f = "chlorophyll" -> { Data("ok", FALSE, 51), Data("ok", TRUE, 0),
                              Data("empty", FALSE, 0), Data("malformed", FALSE, 0) }
    [] f = "sst"         -> { Data("ok", FALSE, 30165), Data("empty", FALSE, 0) }
    [] f = "marine"      -> { Data("ok", FALSE, 50), Data("ok", TRUE, 0),
                              Data("empty", FALSE, 0) }
    [] f = "wind"        -> { Data("ok", FALSE, 30), Data("empty", FALSE, 0) }

\* getMoonPhase(date) of the dates of the model: a dark moon, a bright one,
\* and the NaN illumination of a date that does not parse.
FetchMoons == { Reading(20, ""), Reading(80, ""), NaNReading("") }

NoResult == [status |-> "pending"]

InitFetch ==
  /\ CONFIG = DefaultConfig
  /\ NoTrips
  /\ out = [op |-> "none", pc |-> "idle"]
  /\ calls = <<>>
  /\ responses = <<>>
  /\ zoneIn = <<>>
  /\ zoneOut = <<>>
  /\ scan = <<>>
  /\ fetch \in
       { [ pc |-> "idle", hasKey |-> k, moon |-> m,
           tasks |-> [f \in Fetchers |->
                        [pc |-> "idle", i |-> 0, cause |-> "", result |-> NoResult]],
           outcome |-> [caught |-> FALSE, score |-> 0] ]
         : k \in BOOLEAN, m \in FetchMoons }

\* A fetcher settles: cause tells what went wrong in its try block, "" when
\* nothing did.
Settled(f, i, cause, o) ==
  [pc |-> "done", i |-> i, cause |-> cause, result |-> FetcherResult(f, o, fetch.hasKey)]

\* lines 245-251: the four fetchers are called; getWindData without an API
\* key throws before it fetches anything.
StartFetches ==
  /\ fetch.pc = "idle"
  /\ fetch' = [fetch EXCEPT
       !.pc = "fetching",
       !.tasks = [f \in Fetchers |->
                    IF f = "wind" /\ ~fetch.hasKey
                    THEN Settled(f, 0, "nokey", Failure(""))
                    ELSE [pc |-> "get", i |-> 0, cause |-> "", result |-> NoResult]]]
  /\ UNCHANGED <<CONFIG, out, calls, responses, zoneIn, zoneOut, scan>>
  /\ UNCHANGED <<trips, tripIdCounter, issued>>

\* fetchWithRetry lines 56-57: axios.get resolves and response.data goes to
\* the fetcher.
AttemptSucceeds(f) ==
  /\ fetch.pc = "fetching" /\ fetch.tasks[f].pc = "get"
  /\ \E data \in Payloads(f) :
       fetch' = [fetch EXCEPT !.tasks[f] =
                   Settled(f, fetch.tasks[f].i,
                           IF data.shape = "ok" THEN "" ELSE data.shape, data)]
  /\ UNCHANGED <<CONFIG, out, calls, responses, zoneIn, zoneOut, scan>>
  /\ UNCHANGED <<trips, tripIdCounter, issued>>

\* fetchWithRetry lines 58-61: axios.get rejects; the last attempt throws the
\* error to the fetcher, an earlier one waits a second.
AttemptFails(f) ==
  /\ fetch.pc = "fetching" /\ fetch.tasks[f].pc = "get"
  /\ fetch' = [fetch EXCEPT !.tasks[f] =
                 IF fetch.tasks[f].i = Retries
                 THEN Settled(f, fetch.tasks[f].i, "exhausted", Failure("timeout"))
                 ELSE [fetch.tasks[f] EXCEPT !.pc = "wait"]]
  /\ UNCHANGED <<CONFIG, out, calls, responses, zoneIn, zoneOut, scan>>
  /\ UNCHANGED <<trips, tripIdCounter, issued>>

\* fetchWithRetry line 61 and the next turn of its loop.
RetryAfterWait(f) ==
  /\ fetch.pc = "fetching" /\ fetch.tasks[f].pc = "wait"
  /\ fetch' = [fetch EXCEPT !.tasks[f].pc = "get", !.tasks[f].i = fetch.tasks[f].i + 1]
  /\ UNCHANGED <<CONFIG, out, calls, responses, zoneIn, zoneOut, scan>>
  /\ UNCHANGED <<trips, tripIdCounter, issued>>

\* Promise.all settles - when all its promises have resolved, or as soon as
\* one has rejected - and estimateScoreForLocation returns.
PromiseAllSettles ==
  /\ fetch.pc = "fetching"
  /\ \/ \A f \in Fetchers : fetch.tasks[f].pc = "done"
     \/ \E f \in Fetchers : fetch.tasks[f].result.status = "rejected"
  /\ fetch' = [fetch EXCEPT
       !.pc = "done",
       !.outcome = estimateScoreForLocation([f \in Fetchers |-> fetch.tasks[f].result],
                                            fetch.moon)]
  /\ UNCHANGED <<CONFIG, out, calls, responses, zoneIn, zoneOut, scan>>
  /\ UNCHANGED <<trips, tripIdCounter, issued>>

NextFetch ==
  \/ StartFetches
  \/ \E f \in Fetchers : AttemptSucceeds(f)
  \/ \E f \in Fetchers : AttemptFails(f)
  \/ \E f \in Fetchers : RetryAfterWait(f)
  \/ PromiseAllSettles

SpecFetch == InitFetch /\ [][NextFetch]_vars

\* C13: a fetcher never raises to its caller: whatever went wrong - every
\* attempt failed, the data was empty or unreadable, the API key is missing -
\* its promise resolves, with a reading tagged 'Estimated' that carries the
\* error's description; and the fan-out of a point resolves with all its
\* readings, so that the point is scored from them.
C13_FetchersNeverRaise ==
  /\ \A f \in Fetchers :
       fetch.tasks[f].pc = "done" =>
         /\ fetch.tasks[f].result.status = "resolved"
         /\ (fetch.tasks[f].cause # "") =>
              /\ fetch.tasks[f].result.reading.source = "Estimated"
              /\ fetch.tasks[f].result.reading.error # ""
         /\ (fetch.tasks[f].cause = "") =>
              fetch.tasks[f].result.reading.source # "Estimated"
  /\ fetch.pc = "done" =>
       /\ \A f \in Fetchers : fetch.tasks[f].pc = "done"
       /\ ~fetch.outcome.caught
       /\ fetch.outcome.score
            = ScoreOfReadings([f \in Fetchers |-> fetch.tasks[f].result], fetch.moon)

\* The fan-out has settled with one fetcher out of attempts, one without its
\* API key, one that got empty data and one that got a live reading.
C13_Witness ==
  /\ fetch.pc = "done"
  /\ \E f \in Fetchers : fetch.tasks[f].cause = "exhausted"
  /\ \E f \in Fetchers : fetch.tasks[f].cause = "nokey"
  /\ \E f \in Fetchers : fetch.tasks[f].cause = "empty"
  /\ \E f \in Fetchers : fetch.tasks[f].cause = ""

(***************************************************************************)
(* SpecScan: one call of scanAreaForSpots.  env is what the providers      *)
(* answer: the k-th point that is scored gets the outcomes                 *)
(* env[((k - 1) % Len(env)) + 1] of its four fetchWithRetry calls, and     *)
(* every point the moon of the date of the scan.                           *)
(***************************************************************************)

\* The longest period of the providers' answers along the scan.
MaxPeriod == 3

\* Every provider answers, with the best values.
LiveBest ==
  [ chlorophyll |-> Data("ok", FALSE, 51), sst |-> Data("ok", FALSE, 30165),
    marine |-> Data("ok", FALSE, 50), wind |-> Data("ok", FALSE, 30) ]

\* Every provider answers, with middling values.
LiveFair ==
  [ chlorophyll |-> Data("ok", FALSE, 31), sst |-> Data("ok", FALSE, 30165),
    marine |-> Data("ok", FALSE, 120), wind |-> Data("ok", FALSE, 60) ]

\* Every provider answers, with poor values.
LivePoor ==
  [ chlorophyll |-> Data("ok", FALSE, 5), sst |-> Data("ok", FALSE, 29515),
    marine |-> Data("ok", FALSE, 250), wind |-> Data("ok", FALSE, 120) ]

\* No provider answers: every fetchWithRetry runs out of attempts.
Down == [f \in Fetchers |-> Failure("timeout")]

PointOutcomes == {LiveBest, LiveFair, LivePoor, Down}

Envs == UNION { [1..n -> PointOutcomes] : n \in 1..MaxPeriod }

ScanMoons == { Reading(20, ""), Reading(80, "") }

\* scanRadius 1 leaves two points to score, scanRadius 10 nearly twice
\* TopSpots.
ScanRadii == {1, 10}

InitScan ==
  /\ CONFIG = DefaultConfig
  /\ NoTrips
  /\ out = [op |-> "none", pc |-> "idle"]
  /\ calls = <<>>
  /\ responses = <<>>
  /\ zoneIn = <<>>
  /\ zoneOut = <<>>
  /\ fetch = <<>>
  /\ scan \in
       { [ pc |-> "idle", center |-> [lat |-> 0], currentBagans |-> f, radiusKm |-> r,
           env |-> e, moon |-> m,
           todo |-> <<>>, spots |-> <<>>, spotId |-> 1, scanned |-> <<>>,
           result |-> <<>> ]
         : f \in {<<B1>>, <<B1, B2>>}, r \in ScanRadii, e \in Envs, m \in ScanMoons }

\* The call has gone through the points in todo: lines 223-227 when none is
\* left.
ScanOn(todo, spots, spotId, scanned) ==
  [scan EXCEPT !.pc      = IF todo = <<>> THEN "done" ELSE "scan",
               !.todo    = todo,
               !.spots   = spots,
               !.spotId  = spotId,
               !.scanned = scanned,
               !.result  = IF todo = <<>> THEN TopCandidates(spots) ELSE <<>>]

\* scanAreaForSpots is called: lines 176-203, up to the first await of a
\* point's score.
CallScanArea ==
  /\ scan.pc = "idle"
  /\ scan' = ScanOn(Surviving(scan.center, scan.currentBagans, scan.radiusKm),
                    <<>>, 1, <<>>)
  /\ UNCHANGED <<CONFIG, out, calls, responses, zoneIn, zoneOut, fetch>>
  /\ UNCHANGED <<trips, tripIdCounter, issued>>

\* The score of the point scored as the k-th.
PointEstimate(k) ==
  estimateScoreForLocation(
    [f \in Fetchers |-> FetcherResult(f, scan.env[((k - 1) % Len(scan.env)) + 1][f], TRUE)],
    scan.moon)

\* What the scan notes of the point it has scored: whether every fetch of
\* the point failed, the score, and the id of its spot (0 if none was pushed).
Scored(k, lat, score, spotId) ==
  [ lat |-> lat,
    failed |-> \A f \in Fetchers : scan.env[((k - 1) % Len(scan.env)) + 1][f].kind = "error",
    score |-> score,
    id |-> IF score >= MinSpotScore THEN spotId ELSE 0 ]

\* lines 205-221: the awaited score of the next point arrives, and the loop
\* runs on to its next await, or to the end of the function.
ScanAreaPoint ==
  /\ scan.pc = "scan"
  /\ scan' = ScanOn(Tail(scan.todo),
                    PushSpot(scan.spots, scan.spotId, Head(scan.todo),
                             PointEstimate(Len(scan.scanned) + 1).score),
                    IF PointEstimate(Len(scan.scanned) + 1).score >= MinSpotScore
                    THEN scan.spotId + 1 ELSE scan.spotId,
                    Append(scan.scanned,
                           Scored(Len(scan.scanned) + 1, Head(scan.todo),
                                  PointEstimate(Len(scan.scanned) + 1).score,
                                  scan.spotId)))
  /\ UNCHANGED <<CONFIG, out, calls, responses, zoneIn, zoneOut, fetch>>
  /\ UNCHANGED <<trips, tripIdCounter, issued>>

NextScan ==
  \/ CallScanArea
  \/ ScanAreaPoint

SpecScan == InitScan /\ [][NextScan]_vars

C15_TopScoringPrefix ==
  scan.pc = "done" =>
    LET result  == scan.result
        scanned == scan.scanned
        returned(k) == \E j \in 1..Len(result) : result[j].id = scanned[k].id
    IN /\ Len(result) <= TopSpots
       /\ \A j \in 1..(Len(result) - 1) : result[j].score >= result[j + 1].score
       /\ \A j \in 1..Len(result) :
            /\ result[j].score >= MinSpotScore
            /\ \E k \in 1..Len(scanned) :
                 scanned[k].id = result[j].id /\ scanned[k].score = result[j].score
       /\ \A i, j \in 1..Len(result) : i # j => result[i].id # result[j].id
       /\ \A k \in 1..Len(scanned) :
            (scanned[k].score >= MinSpotScore /\ ~returned(k)) =>
              /\ Len(result) = TopSpots
              /\ \A j \in 1..Len(result) : result[j].score >= scanned[k].score

\* More than 20 points scored 70 or more, with different scores among them,
\* and a point of a lower score was scored too.
C15_Witness ==
  /\ scan.pc = "done"
  /\ Len(scan.spots) > TopSpots
  /\ \E i, j \in 1..Len(scan.spots) : scan.spots[i].score < scan.spots[j].score
  /\ \E k \in 1..Len(scan.scanned) : scan.scanned[k].score < MinSpotScore

(***************************************************************************)
(* The result of optimizeBaganOperations.                                  *)
(***************************************************************************)

\* The recommendations of a result that say 'move'.
MovesIn(result) ==
  { i \in 1..Len(result.recommendations) :
      result.recommendations[i].recommendation.action = "move" }

\* C16: in every result totalBagans is the number of input platforms and of
\* recommendations, bagansToMove the number of recommendations to move,
\* bagansToMove + bagansToStay = totalBagans, and the route and the
\* estimatedTotals are null exactly when bagansToMove = 0.
C16_SummaryCounts ==
  (Returned("optimizeBaganOperations") /\ out.result.status = "ok") =>
    /\ out.result.summary.totalBagans = Len(out.input.currentBagans)
    /\ out.result.summary.totalBagans = Len(out.result.recommendations)
    /\ out.result.summary.bagansToMove = Cardinality(MovesIn(out.result))
    /\ out.result.summary.bagansToMove + out.result.summary.bagansToStay
         = out.result.summary.totalBagans
    /\ (out.result.optimizedRoute.kind = "null") = (out.result.summary.bagansToMove = 0)
    /\ (out.result.estimatedTotals = NoTotals) = (out.result.summary.bagansToMove = 0)

\* A result with two platforms to move and one to stay.
C16_Witness ==
  /\ Returned("optimizeBaganOperations") /\ out.result.status = "ok"
  /\ out.result.summary.bagansToMove = 2
  /\ out.result.summary.bagansToStay = 1

\* C17: the roi of estimatedTotals is (totalExpectedProfit - totalFuelCost) /
\* totalFuelCost * 100 (to one decimal), and a finite number also when the
\* route's totalFuelCost is 0.
C17_RoiGuarded ==
  ( /\ Returned("optimizeBaganOperations") /\ out.result.status = "ok"
    /\ out.result.estimatedTotals # NoTotals )
  => LET totals == out.result.estimatedTotals
         net    == totals.totalExpectedProfit - totals.totalFuelCost
     IN /\ totals.roi.finite
        /\ totals.totalFuelCost > 0 =>
             \* |roi * 10 - net * 1000 / totalFuelCost| <= 1/2
             2 * Abs(totals.roi.tenths * totals.totalFuelCost - net * 1000)
               <= totals.totalFuelCost

\* No candidate site qualifies for any platform of the input of the call.
NoneQualifies ==
  \A i \in 1..Len(out.input.currentBagans) :
    Qualifying(Decisions(out.input.currentBagans[i], out.input.candidateSpots, out.cfg),
               out.cfg) = {}

\* C18: when no candidate site qualifies for any platform - the candidate
\* list may be empty - the optimization returns, with 'stay' for every
\* platform, a null route and null estimatedTotals, and raises no error.
C18_AllStayIsSuccess ==
  (Returned("optimizeBaganOperations") /\ NoneQualifies) =>
    /\ out.result.status = "ok"
    /\ Len(out.result.recommendations) = Len(out.input.currentBagans)
    /\ \A i \in 1..Len(out.result.recommendations) :
         out.result.recommendations[i].recommendation.action = "stay"
    /\ out.result.optimizedRoute.kind = "null"
    /\ out.result.estimatedTotals = NoTotals

\* A call for two platforms or more with candidate sites in reach, none of
\* which qualifies.
C18_Witness ==
  /\ Returned("optimizeBaganOperations") /\ NoneQualifies
  /\ Len(out.input.currentBagans) >= 2
  /\ \E i \in 1..Len(out.input.currentBagans) :
       \E d \in Range(Decisions(out.input.currentBagans[i], out.input.candidateSpots,
                                out.cfg)) : d.analysis # NoAnalysis

(***************************************************************************)
(* SpecConfig: PUT /config requests, one after the other, each overriding  *)
(* some of the options.                                                    *)
(***************************************************************************)

\* The bodies of PUT /config: every option alone (of safeZone, the radius
\* alone, the center alone, and both), two options together, and no option.
ConfigBodies ==
  { [fuelPricePerLiter |-> 20000],
    [fuelConsumptionTow |-> 5],
    [catchPricePerKg |-> 40000],
    [minProfitThreshold |-> 470000],
    [towSpeedKnots |-> 30],
    [setupTimeMinutes |-> 30],
    [maxTowDistance |-> 10],
    [safeZone |-> [radiusKm |-> 20]],
    [safeZone |-> [center |-> [lat |-> DistPerKm]]],
    [safeZone |-> [center |-> [lat |-> 0], radiusKm |-> 10]],
    [islands |-> <<>>],
    [fuelPricePerLiter |-> 10000, maxTowDistance |-> 5],
    <<>> }

InitConfig ==
  /\ CONFIG = DefaultConfig
  /\ NoTrips
  /\ out = [op |-> "none", pc |-> "idle"]
  /\ calls = <<>>
  /\ responses = <<>>
  /\ zoneIn = <<>>
  /\ zoneOut = <<>>
  /\ fetch = <<>>
  /\ scan = <<>>

PutAnyConfig == PutConfigOf(ConfigBodies)

NextConfig == PutAnyConfig

SpecConfig == InitConfig /\ [][NextConfig]_vars

\* The options of the configuration; those of safeZone are options of their
\* own.
Options ==
  { "fuelPricePerLiter", "fuelConsumptionTow", "catchPricePerKg", "minProfitThreshold",
    "towSpeedKnots", "setupTimeMinutes", "maxTowDistance", "islands",
    "safeZone.center", "safeZone.radiusKm" }

\* Whether a configuration, or a request body, holds a value of the option.
HasOption(cfg, option) ==
  IF option = "safeZone.center"
  THEN "safeZone" \in DOMAIN cfg /\ "center" \in DOMAIN cfg.safeZone
  ELSE IF option = "safeZone.radiusKm"
  THEN "safeZone" \in DOMAIN cfg /\ "radiusKm" \in DOMAIN cfg.safeZone
  ELSE option \in DOMAIN cfg

\* The value of an option that a configuration, or a request body, holds.
OptionOf(cfg, option) ==
  IF option = "safeZone.center" THEN cfg.safeZone.center
  ELSE IF option = "safeZone.radiusKm" THEN cfg.safeZone.radiusKm
  ELSE cfg[option]

\* C19: an update changes exactly the options it names: an option the body
\* of the request does not supply has after the request the value it had
\* before, and one it supplies has the value supplied.
C19_UpdateChangesOnlyNamedOptions ==
  [][ \A updates \in ConfigBodies :
        CONFIG' = ObjectAssign(CONFIG, updates) =>
          \A option \in Options :
            IF HasOption(updates, option)
            THEN /\ HasOption(CONFIG', option)
                 /\ OptionOf(CONFIG', option) = OptionOf(updates, option)
            ELSE /\ HasOption(CONFIG', option) = HasOption(CONFIG, option)
                 /\ HasOption(CONFIG, option) =>
                      OptionOf(CONFIG', option) = OptionOf(CONFIG, option) ]_vars

(***************************************************************************)
(* The catch estimate.                                                     *)
(***************************************************************************)

\* C20: for every score in 0..100 estimateCatch returns min = round(0.6 *
\* score), max = round(0.9 * score) and avg = round((min + max) / 2) of
\* those rounded min and max.
C20_AvgOfRoundedBounds ==
  Returned("estimateCatch") =>
    /\ out.result.min = Round(6 * out.input.score, 10)
    /\ out.result.max = Round(9 * out.input.score, 10)
    /\ out.result.avg = Round(out.result.min + out.result.max, 2)
(***************************************************************************)
(* SpecMoon: getMoonPhase on the days of some years.                       *)
(***************************************************************************)

MoonYears == 2024 .. 2026

\* The days of a month of the Gregorian calendar.
DaysIn(year, month) ==
  IF month = 2
  THEN (IF year % 4 = 0 /\ (year % 100 # 0 \/ year % 400 = 0) THEN 29 ELSE 28)
  ELSE IF month \in {4, 6, 9, 11} THEN 30 ELSE 31

Dates ==
  UNION { { [year |-> y, month |-> m, day |-> d] : d \in 1 .. DaysIn(y, m) }
          : y \in MoonYears, m \in 1 .. 12 }

InitMoon ==
  /\ CONFIG = DefaultConfig
  /\ NoTrips
  /\ out = [op |-> "none", pc |-> "idle"]
  /\ calls = <<>>
  /\ responses = <<>>
  /\ zoneIn \in Dates
  /\ zoneOut = [pc |-> "pending"]
  /\ fetch = <<>>
  /\ scan = <<>>

\* zoneService.getMoonPhase(date)
CallGetMoonPhase ==
  /\ zoneOut.pc = "pending"
  /\ zoneOut' = [pc |-> "done", result |-> getMoonPhase(zoneIn)]
  /\ UNCHANGED <<CONFIG, out, calls, responses, zoneIn, fetch, scan>>
  /\ UNCHANGED <<trips, tripIdCounter, issued>>

NextMoon == CallGetMoonPhase

SpecMoon == InitMoon /\ [][NextMoon]_vars

\* C21: for every date getMoonPhase returns an integer illumination from 0
\* up to, and not including, 100: the value 100 is never returned.
C21_IlluminationBelow100 ==
  zoneOut.pc = "done" => zoneOut.result.illumination \in 0 .. 99

\* The names of the phases, in the order of the bands.
PhaseNames ==
  << "New Moon", "Waxing Crescent", "First Quarter", "Waxing Gibbous",
     "Full Moon", "Waning Gibbous", "Last Quarter", "Waning Crescent" >>

\* The band of an illumination, of eight bands 12.5 wide of which the first
\* is centred at 0: it holds the illuminations from 93.75 on and those
\* below 6.25.
CentredBand(illumination) == (((100 * illumination + 625) \div 1250) % 8) + 1

\* C22: the name of the phase is that of the band of the illumination, of
\* eight equal bands 12.5 wide, the first (New Moon) centred at 0, so that
\* an illumination just below 100 is named New Moon as one just above 0 is.
C22_EightEqualBands ==
  zoneOut.pc = "done" =>
    zoneOut.result.phase = PhaseNames[CentredBand(zoneOut.result.illumination)]
(***************************************************************************)
(* The route of optimizeRoute.                                             *)
(***************************************************************************)

\* C23: optimizeRoute returns null for an empty move-set and, for a move-set
\* of exactly one item, a route whose only step is that item; in both cases
\* generatePermutations is not invoked.
C23_TrivialRoutes ==
  Returned("optimizeRoute") =>
    /\ Len(out.input.bagansToMove) = 0 =>
         out.result.kind = "null" /\ out.result.permutations = 0
    /\ Len(out.input.bagansToMove) = 1 =>
         /\ out.result.kind = "single"
         /\ out.result.route = <<out.input.bagansToMove[1]>>
         /\ out.result.permutations = 0
    /\ Len(out.input.bagansToMove) >= 2 => out.result.permutations > 0

\* optimizeRoute has returned the route of a single item that is to be towed
\* from a platform away from the vessel.
C23_Witness ==
  /\ Returned("optimizeRoute")
  /\ Len(out.input.bagansToMove) = 1
  /\ out.input.bagansToMove[1].bagan.lat # out.input.kapalPosition.lat
  /\ out.result.route = <<out.input.bagansToMove[1]>>

\* C24: for a move-set of N >= 1 items the total distance that optimizeRoute
\* reports is the cost the search gives the order returned: the sum over its
\* steps of the leg to the platform and the tow leg from the platform to its
\* target spot (shown to the hundredth of a km in the summary).
C24_TotalIsCostOfOrder ==
  (Returned("optimizeRoute") /\ Len(out.input.bagansToMove) >= 1) =>
    IF out.result.kind = "single"
    THEN out.result.totalDistance
           = OrderCost(out.input.kapalPosition, out.input.bagansToMove, <<1>>)
    ELSE out.result.summary.totalDistance
           = Round(OrderCost(out.input.kapalPosition, out.input.bagansToMove,
                             ChosenOrder(out.result.route, out.input.bagansToMove)) * 100,
                   DistPerKm)

\* C25: in the route returned for N >= 2 items the steps are numbered 1..N
\* and every platform of the move-set has exactly one step; step 1 starts
\* from the vessel position and every later step from the target location
\* of the step before; cumulativeDistance and cumulativeTime never decrease
\* from a step to the next, and those of the last step are the summary's
\* totalDistance and totalTime.
C25_RouteSteps ==
  (Returned("optimizeRoute") /\ Len(out.input.bagansToMove) >= 2) =>
    LET moves == out.input.bagansToMove
        route == out.result.route
        N     == Len(moves)
    IN /\ Len(route) = N
       /\ \A k \in 1..N : route[k].step = k
       /\ \A i \in 1..N :
            Cardinality({ k \in 1..N : route[k].baganId = moves[i].bagan.id }) = 1
       /\ route[1].from = out.input.kapalPosition.lat
       /\ \A k \in 2..N : route[k].from = route[k - 1].targetLocation
       /\ \A k \in 2..N :
            /\ route[k].cumulativeDistance >= route[k - 1].cumulativeDistance
            /\ route[k].cumulativeTime >= route[k - 1].cumulativeTime
       /\ route[N].cumulativeDistance = out.result.summary.totalDistance
       /\ route[N].cumulativeTime = out.result.summary.totalTime

\* A route of three steps has been returned whose steps differ in length and
\* in time, the second shorter than the first.
C25_Witness ==
  /\ Returned("optimizeRoute")
  /\ Len(out.input.bagansToMove) = 3
  /\ Len(out.result.route) = 3
  /\ out.result.route[2].totalStepTime < out.result.route[1].totalStepTime
  /\ out.result.route[2].totalStepDistance < out.result.route[1].totalStepDistance
  /\ out.result.route[3].cumulativeTime > out.result.route[1].cumulativeTime
  /\ out.result.summary.totalTime > 0

(***************************************************************************)
(* SpecRetry: one call fetchWithRetry(url, retries).  fetch holds the       *)
(* position of the call (pc "idle" before it, "get" while axios.get is in  *)
(* flight, "wait" during the second before the next attempt, "returned" or *)
(* "thrown" after it), its loop index i, and log, the outcome of every     *)
(* attempt that has settled, in order.  axios.get is given a timeout and   *)
(* the timer of line 61 fires, so no step of the call waits for ever.      *)
(***************************************************************************)

\* The largest number of retries of a call.
MaxRetries == 3

\* What axios.get may resolve with, and what it may reject with.
RetryPayloads == Payloads("chlorophyll")

RetryErrors == { Failure("timeout"), Failure("ECONNRESET") }

\* The value of a function that returns without a return statement.
Undefined == [kind |-> "undefined"]

\* An attempt that rethrows when it has no retry left was the last one
\* whatever its index.
NeverLast(i, retries) == FALSE

\* line 59: i === retries
IsLast(i, retries) == i = retries

InitRetry ==
  /\ CONFIG = DefaultConfig
  /\ NoTrips
  /\ out = [op |-> "none", pc |-> "idle"]
  /\ calls = <<>>
  /\ responses = <<>>
  /\ zoneIn = <<>>
  /\ zoneOut = <<>>
  /\ scan = <<>>
  /\ fetch \in { [pc |-> "idle", retries |-> r, i |-> 0, issued |-> 0, log |-> <<>>,
                   result |-> NoResult] : r \in 0 .. MaxRetries }

\* lines 54 and 56: the loop is entered or left on i <= retries; entering it
\* issues axios.get, leaving it returns undefined.
LoopFrom(i) ==
  IF i <= fetch.retries
  THEN [fetch EXCEPT !.pc = "get", !.i = i, !.issued = fetch.issued + 1]
  ELSE [fetch EXCEPT !.pc = "returned", !.i = i, !.result = Undefined]

\* fetchWithRetry(url, retries) is called: let i = 0.
CallFetchWithRetry ==
  /\ fetch.pc = "idle"
  /\ fetch' = LoopFrom(0)
  /\ UNCHANGED <<CONFIG, out, calls, responses, zoneIn, zoneOut, scan>>
  /\ UNCHANGED <<trips, tripIdCounter, issued>>

\* lines 56-57: axios.get resolves and response.data is returned.
GetResolves ==
  /\ fetch.pc = "get"
  /\ \E data \in RetryPayloads :
       fetch' = [fetch EXCEPT !.pc = "returned", !.log = Append(fetch.log, data),
                              !.result = data]
  /\ UNCHANGED <<CONFIG, out, calls, responses, zoneIn, zoneOut, scan>>
  /\ UNCHANGED <<trips, tripIdCounter, issued>>

\* lines 58-61: axios.get rejects; the error is thrown on when i === retries,
\* else the wait of a second starts.
GetRejects ==
  /\ fetch.pc = "get"
  /\ \E error \in RetryErrors :
       fetch' = IF IsLast(fetch.i, fetch.retries)
                THEN [fetch EXCEPT !.pc = "thrown", !.log = Append(fetch.log, error),
                                   !.result = error]
                ELSE [fetch EXCEPT !.pc = "wait", !.log = Append(fetch.log, error)]
  /\ UNCHANGED <<CONFIG, out, calls, responses, zoneIn, zoneOut, scan>>
  /\ UNCHANGED <<trips, tripIdCounter, issued>>

\* line 61 and the i++ of line 54: the second is over.
WaitElapses ==
  /\ fetch.pc = "wait"
  /\ fetch' = LoopFrom(fetch.i + 1)
  /\ UNCHANGED <<CONFIG, out, calls, responses, zoneIn, zoneOut, scan>>
  /\ UNCHANGED <<trips, tripIdCounter, issued>>

NextRetry ==
  \/ CallFetchWithRetry
  \/ GetResolves
  \/ GetRejects
  \/ WaitElapses

SpecRetry == InitRetry /\ [][NextRetry]_vars /\ WF_vars(NextRetry)

\* The attempts made are one after another and at most retries + 1: every
\* attempt issued but the one in flight has settled, and every attempt
\* before the last one of the log failed (none follows a success).  A call
\* that has returned returns the data of its last attempt, and a call that
\* has thrown throws the error of its last attempt after retries + 1 failed
\* attempts.
RetryDiscipline ==
  /\ fetch.issued <= fetch.retries + 1
  /\ fetch.issued = Len(fetch.log) + (IF fetch.pc = "get" THEN 1 ELSE 0)
  /\ \A k \in 1 .. Len(fetch.log) - 1 : fetch.log[k].kind = "error"
  /\ fetch.pc = "returned" =>
       /\ fetch.result.kind = "data"
       /\ fetch.log # <<>> /\ fetch.result = fetch.log[Len(fetch.log)]
  /\ fetch.pc = "thrown" =>
       /\ Len(fetch.log) = fetch.retries + 1
       /\ \A k \in 1 .. Len(fetch.log) : fetch.log[k].kind = "error"
       /\ fetch.result = fetch.log[Len(fetch.log)]

\* C26: fetchWithRetry(url, retries) makes its attempts one after another
\* and at most retries + 1 of them; it returns the data of the first attempt
\* that succeeds and makes no attempt after it; it throws the error of the
\* last attempt, and only after all retries + 1 attempts have failed; and
\* every call ends in one of the two ways.
C26_RetryThenReturnOrThrow ==
  /\ []RetryDiscipline
  /\ <>(fetch.pc \in {"returned", "thrown"})

\* A call has returned the data of its second attempt with a retry to spare.
C26_Witness ==
  /\ fetch.pc = "returned"
  /\ Len(fetch.log) = 2
  /\ fetch.retries >= 2
  /\ fetch.log[1].kind = "error"
  /\ fetch.result = fetch.log[2]

(***************************************************************************)
(* SpecTrips: the trips routes, part_000.  trips is the in-memory storage  *)
(* and tripIdCounter the id of the next trip; requests are handled one at  *)
(* a time, each handler running to its response.  Of a trip the model      *)
(* keeps the id, catchKg for the fields of the request, and whether it was *)
(* updated (updatedAt).                                                    *)
(***************************************************************************)

\* The most trips created in a behaviour.
MaxTrips == 3

\* The ids a request may name, in its path or in its body.
TripIds == 1 .. MaxTrips + 1

\* The bodies of POST /api/trips: with the required fields, with an id on
\* top of them, and without a required field.
PostBodies ==
  { [catchKg |-> 10, required |-> TRUE],
    [catchKg |-> 10, required |-> TRUE, id |-> 1],
    [catchKg |-> 10, required |-> FALSE] }

\* The bodies of PUT /api/trips/:id: another catch, an id, both, nothing.
PutBodies ==
  { [catchKg |-> 20], <<>> }
  \cup { [id |-> n] : n \in TripIds }
  \cup { [catchKg |-> 20, id |-> n] : n \in TripIds }

\* trips.findIndex(t => t.id === parseInt(id)), with 0 for -1.
FindIndex(list, id) ==
  IF \E k \in 1 .. Len(list) : list[k].id = id
  THEN CHOOSE k \in 1 .. Len(list) :
         list[k].id = id /\ \A j \in 1 .. (k - 1) : list[j].id # id
  ELSE 0

\* lines 89-104: the trip made of the fields that the handler reads from
\* the body; the id is the counter's.
NewTrip(body, id) == [id |-> id, catchKg |-> body.catchKg]

\* lines 160-164: { ...trips[tripIndex], ...req.body, updatedAt }
UpdatedTrip(trip, body) == ObjectAssign(ObjectAssign(trip, body), [updatedAt |-> TRUE])

\* trips.splice(tripIndex, 1)
Splice(list, tripIndex) ==
  SubSeq(list, 1, tripIndex - 1) \o SubSeq(list, tripIndex + 1, Len(list))

InitTrips ==
  /\ CONFIG = DefaultConfig
  /\ NoTrips
  /\ out = [op |-> "none", pc |-> "idle"]
  /\ calls = <<>>
  /\ responses = <<>>
  /\ zoneIn = <<>>
  /\ zoneOut = <<>>
  /\ fetch = <<>>
  /\ scan = <<>>

\* POST /api/trips, lines 63-119: 400 without a required field, else the
\* trip is stored under the counter's id and the counter moves on.
PostTrip ==
  /\ tripIdCounter <= MaxTrips
  /\ \E body \in PostBodies :
       IF ~body.required
       THEN UNCHANGED <<trips, tripIdCounter, issued>>
       ELSE /\ trips' = Append(trips, NewTrip(body, tripIdCounter))
            /\ tripIdCounter' = tripIdCounter + 1
            /\ issued' = Append(issued, tripIdCounter)
  /\ UNCHANGED <<CONFIG, out, calls, responses, zoneIn, zoneOut, fetch, scan>>

\* PUT /api/trips/:id, lines 147-177: 404 when no trip has the id, else the
\* trip is replaced by itself overlaid with the body.
PutTrip ==
  /\ \E id \in TripIds, body \in PutBodies :
       IF FindIndex(trips, id) = 0
       THEN UNCHANGED trips
       ELSE trips' = [trips EXCEPT ![FindIndex(trips, id)] =
                        UpdatedTrip(trips[FindIndex(trips, id)], body)]
  /\ UNCHANGED <<tripIdCounter, issued>>
  /\ UNCHANGED <<CONFIG, out, calls, responses, zoneIn, zoneOut, fetch, scan>>

\* DELETE /api/trips/:id, lines 180-204: 404 when no trip has the id, else
\* the trip is taken out of the storage.
DeleteTrip ==
  /\ \E id \in TripIds :
       IF FindIndex(trips, id) = 0
       THEN UNCHANGED trips
       ELSE trips' = Splice(trips, FindIndex(trips, id))
  /\ UNCHANGED <<tripIdCounter, issued>>
  /\ UNCHANGED <<CONFIG, out, calls, responses, zoneIn, zoneOut, fetch, scan>>

NextTrips ==
  \/ PostTrip
  \/ PutTrip
  \/ DeleteTrip

SpecTrips == InitTrips /\ [][NextTrips]_vars

\* The stored trips have pairwise distinct ids.
DistinctTripIds ==
  \A j, k \in 1 .. Len(trips) : j # k => trips[j].id # trips[k].id

\* No id was handed out twice.
IssuedOnce ==
  \A j, k \in 1 .. Len(issued) : j # k => issued[j] # issued[k]

\* A step that keeps the number of stored trips keeps the id of each, and a
\* step that stores a trip keeps the id of those before it.
TripIdsKept ==
  Len(trips') >= Len(trips) => \A k \in 1 .. Len(trips) : trips'[k].id = trips[k].id

\* C27: after any sequence of POST, PUT and DELETE requests on /api/trips
\* the stored trips have pairwise distinct ids, the id of a trip never
\* changes after its creation, and an id once issued is never issued again,
\* also after its trip was deleted.
C27_TripIdsUniqueAndStable ==
  /\ []DistinctTripIds
  /\ [][TripIdsKept]_vars
  /\ []IssuedOnce
====
